---- MODULE Spec2Model ----
(***************************************************************************)
(* Model of the code-agent orchestration engine:                           *)
(*   - the bounded retry subworkflow   (src/src/code_agent/tdd_subgraph.py) *)
(*   - the checkpoint manager          (src/src/code_agent/checkpointing.py)*)
(*   - the work item store             (src/src/code_agent/tracking.py)     *)
(*   - the phase router, the phases and the run loop (src/bug_hunter.py)    *)
(* The graph engine (langgraph) is modelled by its documented behaviour:    *)
(* a node's returned dict is folded into the state channel by channel, the  *)
(* outgoing edge of the node that ran picks the next node, and with a       *)
(* checkpointer every superstep stores a snapshot under the thread id.      *)
(***************************************************************************)
EXTENDS Integers, Sequences, FiniteSets, TLC

(***************************************************************************)
(* Bounds of the model.                                                    *)
(***************************************************************************)
MaxN == 3

\* Python's None.
None == "None"

(***************************************************************************)
(* Bounded retry subworkflow: tdd_subgraph.py                              *)
(***************************************************************************)
VARIABLES
    tdd_config,     \* TDDConfig: task_type, max_review_attempts
    tdd_state,      \* TDDState, the graph's channels
    tdd_next,       \* the node the graph runs next, "END", or "returned"
    tdd_result,     \* TDDResult returned by run_tdd_subgraph
    tdd_reviews,    \* history: number of review_node executions
    tdd_implements, \* history: number of implement_node executions
    tdd_last,       \* history: the node that ran last and its gateway outcome
    tdd_all_rejected \* history: no phase has discarded, every review has rejected

tdd_vars == <<tdd_config, tdd_state, tdd_next, tdd_result,
              tdd_reviews, tdd_implements, tdd_last, tdd_all_rejected>>

TaskType == {"bug_fix", "feature", "refactor"}

\* TEMPLATES[task_type]["refactor"] is None exactly for TaskType.REFACTOR.
HasRefactorTemplate(task_type) == task_type # "refactor"

\* What _run_agent can return to each node: None (no structured output) or a
\* value of the node's output schema.
NoResult == [kind |-> "none"]

TestPaths == {None, "/test.py"}
Reasons == {None, "r1"}

WriteTestsResults ==
    [kind : {"result"}, status : {"PREPARED_FOR_FIX", "DISCARDED"},
     test_file_path : TestPaths, notes : {"wt"}]

ImplementResults ==
    [kind : {"result"}, status : {"READY_FOR_REVIEW", "DISCARDED"}, notes : {"im"}]

RefactorResults ==
    [kind : {"result"}, refactored : BOOLEAN, notes : {"rf"}]

ReviewResults ==
    [kind : {"result"}, status : {"SUCCESS", "REJECTED"},
     rejection_reason : Reasons, notes : {"rv"}]

\* A node returns a partial state; every TDDState channel keeps the last value
\* written to it, so the keys the node returned replace the old values.
ApplyUpdate(state, update) ==
    [k \in DOMAIN state |-> IF k \in DOMAIN update THEN update[k] ELSE state[k]]

\* implementation_notes is text; a note is modelled as the sequence of the
\* segments that were concatenated into it ("" is the empty sequence).
write_tests_node(state, result) ==
    IF result.kind = "result"
    THEN LET status == IF result.status = "DISCARDED" THEN "DISCARDED" ELSE None
         IN [phase |-> IF status = None THEN "implement" ELSE "done",
             test_file_path |-> result.test_file_path,
             implementation_notes |-> <<result.notes>>,
             status |-> status]
    ELSE [phase |-> "done", status |-> "DISCARDED",
          implementation_notes |-> <<"Failed to write tests.">>]

\* implement_node: the review feedback its prompt carries, one line per entry
\* of state["rejection_history"], in order (nothing when the history is empty).
implement_prompt(state) ==
    [i \in 1..Len(state.rejection_history) |-> state.rejection_history[i]]

implement_node(state, result) ==
    IF result.kind = "result"
    THEN IF result.status = "DISCARDED"
         THEN [phase |-> "done", status |-> "DISCARDED",
               implementation_notes |->
                   Append(state.implementation_notes, "Implement: " \o result.notes)]
         ELSE [phase |-> "refactor",
               implementation_notes |->
                   Append(state.implementation_notes, "Implement: " \o result.notes)]
    ELSE [phase |-> "done", status |-> "DISCARDED",
          implementation_notes |-> <<"Failed to implement.">>]

\* Variant that asks the gateway whatever the task type.
refactor_node_always_asks(state, config, result) ==
    IF result.kind = "result"
    THEN [phase |-> "review",
          implementation_notes |->
              Append(state.implementation_notes, "Refactor: " \o result.notes)]
    ELSE [phase |-> "review"]

\* For a task type without a refactor template the node returns before the
\* gateway is called; result is then ignored.
refactor_node(state, config, result) ==
    IF ~HasRefactorTemplate(config.task_type)
    THEN [phase |-> "review"]
    ELSE IF result.kind = "result"
         THEN [phase |-> "review",
               implementation_notes |->
                   Append(state.implementation_notes, "Refactor: " \o result.notes)]
         ELSE [phase |-> "review"]

\* Variant of review_node that keeps only the latest rejection reason.
review_node_last_reason_only(state, config, result) ==
    LET new_attempt == state.review_attempts + 1 IN
    IF result.kind = "result"
    THEN IF result.status = "SUCCESS"
         THEN [phase |-> "done", status |-> "SUCCESS",
               review_attempts |-> new_attempt,
               implementation_notes |->
                   Append(state.implementation_notes, "Review: " \o result.notes)]
         ELSE LET new_history ==
                      <<IF result.rejection_reason # None
                        THEN result.rejection_reason ELSE result.notes>>
              IN IF new_attempt >= config.max_review_attempts
                 THEN [phase |-> "done", status |-> "MAX_ATTEMPTS_REACHED",
                       review_attempts |-> new_attempt,
                       rejection_history |-> new_history,
                       implementation_notes |->
                           Append(state.implementation_notes,
                                  "Review (rejected): " \o result.notes)]
                 ELSE [phase |-> "implement",
                       review_attempts |-> new_attempt,
                       rejection_history |-> new_history,
                       implementation_notes |->
                           Append(state.implementation_notes,
                                  "Review (rejected): " \o result.notes)]
    ELSE [phase |-> "done", status |-> "MAX_ATTEMPTS_REACHED",
          review_attempts |-> new_attempt]

review_node(state, config, result) ==
    LET new_attempt == state.review_attempts + 1 IN
    IF result.kind = "result"
    THEN IF result.status = "SUCCESS"
         THEN [phase |-> "done", status |-> "SUCCESS",
               review_attempts |-> new_attempt,
               implementation_notes |->
                   Append(state.implementation_notes, "Review: " \o result.notes)]
         ELSE LET new_history ==
                      Append(state.rejection_history,
                             IF result.rejection_reason # None
                             THEN result.rejection_reason ELSE result.notes)
              IN IF new_attempt >= config.max_review_attempts
                 THEN [phase |-> "done", status |-> "MAX_ATTEMPTS_REACHED",
                       review_attempts |-> new_attempt,
                       rejection_history |-> new_history,
                       implementation_notes |->
                           Append(state.implementation_notes,
                                  "Review (rejected): " \o result.notes)]
                 ELSE [phase |-> "implement",
                       review_attempts |-> new_attempt,
                       rejection_history |-> new_history,
                       implementation_notes |->
                           Append(state.implementation_notes,
                                  "Review (rejected): " \o result.notes)]
    ELSE [phase |-> "done", status |-> "MAX_ATTEMPTS_REACHED",
          review_attempts |-> new_attempt]

\* Routing functions of the conditional edges.
\* Variant of after_write_tests that does not look at the status.
after_write_tests_always_implement(state) == "implement"

after_write_tests(state) ==
    IF state.status = "DISCARDED" THEN "END" ELSE "implement"

after_refactor(state) == "review"

\* Variant of after_review that forgets the bound on review_attempts.
after_review_unbounded(state, config) ==
    IF state.status = "SUCCESS" THEN "END" ELSE "implement"

after_review(state, config) ==
    IF state.status = "SUCCESS" THEN "END"
    ELSE IF state.review_attempts >= config.max_review_attempts THEN "END"
    ELSE "implement"

\* tdd_graph: START -> write_tests -(after_write_tests)-> ..., the fixed edge
\* implement -> refactor, refactor -(after_refactor)->, review -(after_review)->.
tdd_graph(node, state, config) ==
    CASE node = "write_tests" -> after_write_tests(state)
      [] node = "implement"   -> "refactor"
      [] node = "refactor"    -> after_refactor(state)
      [] node = "review"      -> after_review(state, config)

\* run_tdd_subgraph: the initial state handed to the graph.
initial_tdd_state ==
    [phase |-> "write_tests",
     test_file_path |-> None,
     implementation_notes |-> <<>>,
     review_attempts |-> 0,
     status |-> None,
     rejection_history |-> <<>>]

\* Variant that derives the status from the attempt counter alone.
tdd_final_status_from_attempts(final_state, config) ==
    IF final_state.review_attempts >= config.max_review_attempts
    THEN "MAX_ATTEMPTS_REACHED" ELSE "SUCCESS"

\* run_tdd_subgraph: the TDDResult built from the final state.
tdd_final_status(final_state, config) ==
    IF final_state.status = None
    THEN IF final_state.review_attempts >= config.max_review_attempts
         THEN "MAX_ATTEMPTS_REACHED" ELSE "SUCCESS"
    ELSE final_state.status

TDDResult(final_state, config) ==
    [status |-> tdd_final_status(final_state, config),
     test_file_path |-> final_state.test_file_path,
     notes |-> final_state.implementation_notes,
     rejection_history |-> final_state.rejection_history]

\* Before run_tdd_subgraph has returned there is no result.
NoTDDResult ==
    [status |-> None, test_file_path |-> None, notes |-> <<>>,
     rejection_history |-> <<>>]

TddConfigs == [task_type : TaskType, max_review_attempts : 0..MaxN]

TddInit ==
    /\ tdd_config \in TddConfigs
    /\ tdd_state = initial_tdd_state
    /\ tdd_next = "write_tests"
    /\ tdd_result = NoTDDResult
    /\ tdd_reviews = 0
    /\ tdd_implements = 0
    /\ tdd_last = [node |-> None, outcome |-> None]
    /\ tdd_all_rejected = TRUE

\* Outcome tag of a gateway result, for the history variable.
Outcome(result) ==
    IF result.kind = "none" THEN "none"
    ELSE IF "status" \in DOMAIN result THEN result.status ELSE "ok"

\* The counters of the code stay below this cap in every run; it only keeps a
\* faulty variant of the loop finite.
TddCap == MaxN + 1

TddStep(node, update, outcome) ==
    /\ tdd_next = node
    /\ tdd_reviews < TddCap
    /\ tdd_state' = ApplyUpdate(tdd_state, update)
    /\ tdd_next' = tdd_graph(node, tdd_state', tdd_config)
    /\ tdd_last' = [node |-> node, outcome |-> outcome]
    /\ tdd_all_rejected' =
           /\ tdd_all_rejected
           /\ \/ node = "refactor"
              \/ outcome \in {"PREPARED_FOR_FIX", "READY_FOR_REVIEW", "REJECTED"}
    /\ tdd_reviews' = IF node = "review" THEN tdd_reviews + 1 ELSE tdd_reviews
    /\ tdd_implements' =
           IF node = "implement" THEN tdd_implements + 1 ELSE tdd_implements
    /\ UNCHANGED <<tdd_config, tdd_result>>

WriteTests ==
    \E result \in WriteTestsResults \cup {NoResult} :
        TddStep("write_tests", write_tests_node(tdd_state, result), Outcome(result))

Implement ==
    \E result \in ImplementResults \cup {NoResult} :
        TddStep("implement", implement_node(tdd_state, result), Outcome(result))

Refactor ==
    \E result \in RefactorResults \cup {NoResult} :
        TddStep("refactor", refactor_node(tdd_state, tdd_config, result),
                IF HasRefactorTemplate(tdd_config.task_type)
                THEN Outcome(result) ELSE "skipped")

Review ==
    \E result \in ReviewResults \cup {NoResult} :
        TddStep("review", review_node(tdd_state, tdd_config, result), Outcome(result))

\* The stream is exhausted: run_tdd_subgraph builds and returns its TDDResult.
TddReturn ==
    /\ tdd_next = "END"
    /\ tdd_result' = TDDResult(tdd_state, tdd_config)
    /\ tdd_next' = "returned"
    /\ UNCHANGED <<tdd_config, tdd_state, tdd_reviews, tdd_implements, tdd_last,
                   tdd_all_rejected>>

(***************************************************************************)
(* Work item store: tracking.py, and the state channels of bug_hunter.py    *)
(***************************************************************************)
MaxStoreBugs == 2

\* A Python dict keeps its keys in insertion order and the phases pick "the
\* first" matching value, so a dict is a sequence of entries with distinct keys.
Keys(d) == {d[i].key : i \in DOMAIN d}
HasKey(d, k) == k \in Keys(d)
Lookup(d, k) == d[CHOOSE i \in DOMAIN d : d[i].key = k].val
Values(d) == [i \in DOMAIN d |-> d[i].val]
DistinctKeys(d) == \A i, j \in DOMAIN d : d[i].key = d[j].key => i = j

\* f"BUG-{next_id:03}" and int(b.replace("BUG-", "")).
BugId(n) ==
    "BUG-" \o (IF n < 10 THEN "00" ELSE IF n < 100 THEN "0" ELSE "") \o ToString(n)

\* The largest number an id of the model carries.
MaxBugNum == 2 * MaxStoreBugs + 2
BugNum(id) == CHOOSE n \in 0..MaxBugNum : BugId(n) = id

Severity == {"HIGH", "MEDIUM", "LOW"}
BugStatus == {"POTENTIAL", "IN_ANALYSIS", "PREPARED_FOR_FIX", "READY_FOR_REVIEW",
              "SOLVED", "DISCARDED"}
Approach == {"UNIT_TEST", "MANUAL", "INTEGRATION_TEST"}
Chance == {"EASY", "MEDIUM", "HARD"}
FixStatus == {"IN_REVIEW", "REJECTED", "FINISHED"}

\* Bug and BugFix without the fields no phase reads or changes
\* (short_description, relevant_files, the timestamps, manual_adjustments).
Bug(id, severity, status, approach, chance) ==
    [id |-> id, severity |-> severity, status |-> status,
     reproducibility_approach |-> approach, reproducibility_chance |-> chance]

BugFix(bug_id, status, rejection_reason) ==
    [bug_id |-> bug_id, status |-> status, rejection_reason |-> rejection_reason]

\* Variant of merge_bugs in which the existing record wins over the new one.
merge_bugs_keeps_existing(existing, new) ==
    existing \o SelectSeq(new, LAMBDA e : ~HasKey(existing, e.key))

\* Variant of merge_bugs that adds the new records after the existing ones,
\* as the reducer of the messages channel does.
merge_bugs_appends(existing, new) == existing \o new

\* Reducers of the BugHunterState channels.
merge_bugs(existing, new) ==
    [i \in DOMAIN existing |->
        IF HasKey(new, existing[i].key)
        THEN [key |-> existing[i].key, val |-> Lookup(new, existing[i].key)]
        ELSE existing[i]]
    \o SelectSeq(new, LAMBDA e : ~HasKey(existing, e.key))

merge_fixes(existing, new) ==
    [i \in DOMAIN existing |->
        IF HasKey(new, existing[i].key)
        THEN [key |-> existing[i].key, val |-> Lookup(new, existing[i].key)]
        ELSE existing[i]]
    \o SelectSeq(new, LAMBDA e : ~HasKey(existing, e.key))

\* A channel a node did not write is absent from its update; an entrypoints
\* value of None is modelled as Unset.
Unset == <<None>>

\* Variant of replace_entrypoints that tests the new list for truth, so that
\* an empty list counts as no change.
replace_entrypoints_if_truthy(existing, new) ==
    IF new # Unset /\ new # <<>> THEN new ELSE existing

replace_entrypoints(existing, new) == IF new # Unset THEN new ELSE existing

(***************************************************************************)
(* Phase router: bug_hunter.py                                             *)
(***************************************************************************)
\* [b for b in bugs.values() if ...] is SelectSeq(Values(bugs), ...): the
\* matching values, in dict order.
\* Variant of check_state that scouts the queue before it looks for a bug to
\* classify.
check_state_scout_first(state) ==
    LET bugs == state.bugs
        entrypoints == state.entrypoints
        reviewable_bugs ==
            SelectSeq(Values(bugs), LAMBDA b : b.status = "READY_FOR_REVIEW")
        reproduced_bugs ==
            SelectSeq(Values(bugs), LAMBDA b : b.status = "PREPARED_FOR_FIX"
                                       /\ b.reproducibility_approach = "UNIT_TEST")
        unit_test_bugs ==
            SelectSeq(Values(bugs), LAMBDA b : b.status = "IN_ANALYSIS"
                                       /\ b.reproducibility_approach = "UNIT_TEST")
        high_severity_bugs ==
            SelectSeq(Values(bugs), LAMBDA b : b.status = "POTENTIAL" /\ b.severity = "HIGH")
    IN IF reviewable_bugs # <<>> THEN "review_fix_node"
       ELSE IF reproduced_bugs # <<>> THEN "fix_unit_test_bug_node"
       ELSE IF unit_test_bugs # <<>> THEN "reproduce_unit_test_bug_node"
       ELSE IF entrypoints # <<>> THEN "scout_node"
       ELSE IF high_severity_bugs # <<>> THEN "classify_bug_candidate_node"
       ELSE "suggest_entrypoint_node"

\* Variant of check_state that looks for a bug to reproduce before it looks
\* for a bug to fix.
check_state_reproduce_first(state) ==
    LET bugs == state.bugs
        entrypoints == state.entrypoints
        reviewable_bugs ==
            SelectSeq(Values(bugs), LAMBDA b : b.status = "READY_FOR_REVIEW")
        reproduced_bugs ==
            SelectSeq(Values(bugs), LAMBDA b : b.status = "PREPARED_FOR_FIX"
                                       /\ b.reproducibility_approach = "UNIT_TEST")
        unit_test_bugs ==
            SelectSeq(Values(bugs), LAMBDA b : b.status = "IN_ANALYSIS"
                                       /\ b.reproducibility_approach = "UNIT_TEST")
        high_severity_bugs ==
            SelectSeq(Values(bugs), LAMBDA b : b.status = "POTENTIAL" /\ b.severity = "HIGH")
    IN IF reviewable_bugs # <<>> THEN "review_fix_node"
       ELSE IF unit_test_bugs # <<>> THEN "reproduce_unit_test_bug_node"
       ELSE IF reproduced_bugs # <<>> THEN "fix_unit_test_bug_node"
       ELSE IF high_severity_bugs # <<>> THEN "classify_bug_candidate_node"
       ELSE IF entrypoints # <<>> THEN "scout_node"
       ELSE "suggest_entrypoint_node"

\* Variant of check_state that ends the run when it finds nothing to work on.
check_state_ends_when_idle(state) ==
    LET bugs == state.bugs
        entrypoints == state.entrypoints
        reviewable_bugs ==
            SelectSeq(Values(bugs), LAMBDA b : b.status = "READY_FOR_REVIEW")
        reproduced_bugs ==
            SelectSeq(Values(bugs), LAMBDA b : b.status = "PREPARED_FOR_FIX"
                                       /\ b.reproducibility_approach = "UNIT_TEST")
        unit_test_bugs ==
            SelectSeq(Values(bugs), LAMBDA b : b.status = "IN_ANALYSIS"
                                       /\ b.reproducibility_approach = "UNIT_TEST")
        high_severity_bugs ==
            SelectSeq(Values(bugs), LAMBDA b : b.status = "POTENTIAL" /\ b.severity = "HIGH")
    IN IF reviewable_bugs # <<>> THEN "review_fix_node"
       ELSE IF reproduced_bugs # <<>> THEN "fix_unit_test_bug_node"
       ELSE IF unit_test_bugs # <<>> THEN "reproduce_unit_test_bug_node"
       ELSE IF high_severity_bugs # <<>> THEN "classify_bug_candidate_node"
       ELSE IF entrypoints # <<>> THEN "scout_node"
       ELSE "END"

check_state(state) ==
    LET bugs == state.bugs
        entrypoints == state.entrypoints
        reviewable_bugs ==
            SelectSeq(Values(bugs), LAMBDA b : b.status = "READY_FOR_REVIEW")
        reproduced_bugs ==
            SelectSeq(Values(bugs), LAMBDA b : b.status = "PREPARED_FOR_FIX"
                                       /\ b.reproducibility_approach = "UNIT_TEST")
        unit_test_bugs ==
            SelectSeq(Values(bugs), LAMBDA b : b.status = "IN_ANALYSIS"
                                       /\ b.reproducibility_approach = "UNIT_TEST")
        high_severity_bugs ==
            SelectSeq(Values(bugs), LAMBDA b : b.status = "POTENTIAL" /\ b.severity = "HIGH")
    IN IF reviewable_bugs # <<>> THEN "review_fix_node"
       ELSE IF reproduced_bugs # <<>> THEN "fix_unit_test_bug_node"
       ELSE IF unit_test_bugs # <<>> THEN "reproduce_unit_test_bug_node"
       ELSE IF high_severity_bugs # <<>> THEN "classify_bug_candidate_node"
       ELSE IF entrypoints # <<>> THEN "scout_node"
       ELSE "suggest_entrypoint_node"

review_requires_fix_any_fix(state) ==
    LET bugs == state.bugs
        fixes == state.fixes
        prepared_bugs ==
            SelectSeq(Values(bugs), LAMBDA b : b.status = "PREPARED_FOR_FIX"
                                       /\ b.reproducibility_approach = "UNIT_TEST")
        bug_fixes == SelectSeq(prepared_bugs, LAMBDA b : HasKey(fixes, b.id))
    IN IF bug_fixes # <<>> THEN "fix_unit_test_bug_node" ELSE "END"

review_requires_fix(state) ==
    LET bugs == state.bugs
        fixes == state.fixes
        prepared_bugs ==
            SelectSeq(Values(bugs), LAMBDA b : b.status = "PREPARED_FOR_FIX"
                                       /\ b.reproducibility_approach = "UNIT_TEST")
        rejected_fixes ==
            SelectSeq(prepared_bugs,
                      LAMBDA b : HasKey(fixes, b.id)
                                 /\ Lookup(fixes, b.id).status = "REJECTED")
    IN IF rejected_fixes # <<>> THEN "fix_unit_test_bug_node" ELSE "END"

(***************************************************************************)
(* Phases of the main pipeline: bug_hunter.py                              *)
(***************************************************************************)
MaxScout == 1

\* run_agent returns a value of the phase's schema, or None when the response
\* stream ends without a message carrying structured_output; a result message
\* whose structured_output is None makes model_validate raise.
NoneResult == [kind |-> "none"]
RaisedResult == [kind |-> "raise"]

\* The values the gateway's answers are drawn from: one entrypoint at most,
\* bugs of HIGH severity (a bug of another severity is never picked up by a
\* phase), the UNIT_TEST approach (the only one the phases go on with), and
\* every status the schema of a phase allows.
SuggestEntrypointsResults ==
    [kind : {"result"}, entrypoints : {<<>>, <<"a.go">>},
     reasoning : {"reasoning"}]

ScoutBugs == [severity : {"HIGH"}]

ScoutResults ==
    [kind : {"result"},
     bugs : UNION {[1..n -> ScoutBugs] : n \in 0..MaxScout},
     exploration_summary : {"summary"}]

ClassifyResults ==
    [kind : {"result"}, reproducibility_approach : {"UNIT_TEST"},
     reproducibility_chance : {"EASY"}]

ReproduceResults ==
    [kind : {"result"}, status : {"PREPARED_FOR_FIX", "DISCARDED"}]

FixResults ==
    [kind : {"result"}, status : {"READY_FOR_REVIEW", "DISCARDED"}]

RefactorFixResults == [kind : {"result"}, refactored : {TRUE}]

ReviewFixResults ==
    [kind : {"result"}, status : {"SOLVED", "PREPARED_FOR_FIX"},
     rejection_reason : {"reason"}]

\* A phase returns a partial state (a record with some of the channels), or
\* raises: the update is then the exception.
Raise(exception) == [raise |-> exception]
Raises(update) == "raise" \in DOMAIN update

\* lst[0]: the head, IndexError on an empty list.
First(lst) == lst[1]

\* max([...], default=0)
RECURSIVE MaxOf(_)
MaxOf(S) ==
    IF S = {} THEN 0
    ELSE LET x == CHOOSE x \in S : TRUE
             m == MaxOf(S \ {x})
         IN IF x > m THEN x ELSE m

suggest_entrypoint_node(state, result) ==
    IF state.entrypoints # <<>>
    THEN [messages |-> <<"Entrypoints already exist.">>]
    ELSE IF result.kind = "raise" THEN Raise("ValidationError")
    ELSE IF result.kind = "result"
    THEN [messages |-> <<result.reasoning>>, entrypoints |-> result.entrypoints]
    ELSE [messages |-> <<"Failed to suggest entrypoints.">>]

\* The ids given to the bugs of one scout result, in order.
RECURSIVE ScoutNewBugs(_, _, _)
ScoutNewBugs(bugs, scout_bugs, new_bugs) ==
    IF scout_bugs = <<>> THEN new_bugs
    ELSE LET next_id == MaxOf({BugNum(k) : k \in Keys(bugs)}) + 1 + Len(new_bugs)
             bug_id == BugId(next_id)
             bug == Bug(bug_id, Head(scout_bugs).severity, "POTENTIAL", None, None)
         IN ScoutNewBugs(bugs, Tail(scout_bugs),
                         merge_bugs(new_bugs, <<[key |-> bug_id, val |-> bug]>>))

\* Variant of scout_node that takes the last entry of the queue, not the first.
scout_node_drops_last(state, result) ==
    IF state.entrypoints = <<>>
    THEN [messages |-> <<"No entrypoints to scout.">>]
    ELSE LET remaining == SubSeq(state.entrypoints, 1, Len(state.entrypoints) - 1) IN
         IF result.kind = "raise" THEN Raise("ValidationError")
         ELSE IF result.kind = "result"
         THEN [messages |-> <<result.exploration_summary>>,
               bugs |-> ScoutNewBugs(state.bugs, result.bugs, <<>>),
               entrypoints |-> remaining]
         ELSE [messages |-> <<"No bugs found.">>, entrypoints |-> remaining]

\* The file the prompt of scout_node names as the starting point.
scout_entrypoint(state) == state.entrypoints[1]

\* Variant of scout_node that keeps the queue when the gateway gave no result.
scout_node_keeps_entry_on_failure(state, result) ==
    IF state.entrypoints = <<>>
    THEN [messages |-> <<"No entrypoints to scout.">>]
    ELSE LET remaining == Tail(state.entrypoints) IN
         IF result.kind = "raise" THEN Raise("ValidationError")
         ELSE IF result.kind = "result"
         THEN [messages |-> <<result.exploration_summary>>,
               bugs |-> ScoutNewBugs(state.bugs, result.bugs, <<>>),
               entrypoints |-> remaining]
         ELSE [messages |-> <<"No bugs found.">>]

\* Variant of scout_node that numbers the new bugs from the size of the store.
scout_node_numbers_from_count(state, result) ==
    IF state.entrypoints = <<>>
    THEN [messages |-> <<"No entrypoints to scout.">>]
    ELSE LET remaining == Tail(state.entrypoints) IN
         IF result.kind = "raise" THEN Raise("ValidationError")
         ELSE IF result.kind = "result"
         THEN [messages |-> <<result.exploration_summary>>,
               bugs |-> [i \in 1..Len(result.bugs) |->
                            LET bug_id == BugId(Len(state.bugs) + i) IN
                            [key |-> bug_id,
                             val |-> Bug(bug_id, result.bugs[i].severity,
                                         "POTENTIAL", None, None)]],
               entrypoints |-> remaining]
         ELSE [messages |-> <<"No bugs found.">>, entrypoints |-> remaining]

scout_node(state, result) ==
    IF state.entrypoints = <<>>
    THEN [messages |-> <<"No entrypoints to scout.">>]
    ELSE LET remaining == Tail(state.entrypoints) IN
         IF result.kind = "raise" THEN Raise("ValidationError")
         ELSE IF result.kind = "result"
         THEN [messages |-> <<result.exploration_summary>>,
               bugs |-> ScoutNewBugs(state.bugs, result.bugs, <<>>),
               entrypoints |-> remaining]
         ELSE [messages |-> <<"No bugs found.">>, entrypoints |-> remaining]

\* Variant of classify_bug_candidate_node that moves the bug on although the
\* gateway gave no result.
classify_bug_candidate_node_advances_on_failure(state, result) ==
    LET potential_bugs ==
            SelectSeq(Values(state.bugs),
                      LAMBDA b : b.status = "POTENTIAL" /\ b.severity = "HIGH")
    IN IF potential_bugs = <<>>
       THEN [messages |-> <<"No potential high severity bugs found.">>]
       ELSE LET chosen_bug == First(potential_bugs) IN
            IF result.kind = "raise" THEN Raise("ValidationError")
            ELSE IF result.kind = "result"
            THEN [messages |-> <<chosen_bug.id \o " classified">>,
                  bugs |-> <<[key |-> chosen_bug.id,
                              val |-> Bug(chosen_bug.id, chosen_bug.severity,
                                          "IN_ANALYSIS",
                                          result.reproducibility_approach,
                                          result.reproducibility_chance)]>>]
            ELSE [messages |-> <<"Failed to classify bug.">>,
                  bugs |-> <<[key |-> chosen_bug.id,
                              val |-> Bug(chosen_bug.id, chosen_bug.severity,
                                          "IN_ANALYSIS", None, None)]>>]

classify_bug_candidate_node(state, result) ==
    LET potential_bugs ==
            SelectSeq(Values(state.bugs),
                      LAMBDA b : b.status = "POTENTIAL" /\ b.severity = "HIGH")
    IN IF potential_bugs = <<>>
       THEN [messages |-> <<"No potential high severity bugs found.">>]
       ELSE LET chosen_bug == First(potential_bugs) IN
            IF result.kind = "raise" THEN Raise("ValidationError")
            ELSE IF result.kind = "result"
            THEN [messages |-> <<chosen_bug.id \o " classified">>,
                  bugs |-> <<[key |-> chosen_bug.id,
                              val |-> Bug(chosen_bug.id, chosen_bug.severity,
                                          "IN_ANALYSIS",
                                          result.reproducibility_approach,
                                          result.reproducibility_chance)]>>]
            ELSE [messages |-> <<"Failed to classify bug.">>]

reproduce_unit_test_bug_node(state, result) ==
    LET unit_test_bugs ==
            SelectSeq(Values(state.bugs),
                      LAMBDA b : b.status = "IN_ANALYSIS"
                                 /\ b.reproducibility_approach = "UNIT_TEST")
    IN IF unit_test_bugs = <<>> THEN Raise("IndexError")
       ELSE LET bug == First(unit_test_bugs) IN
            IF result.kind = "raise" THEN Raise("ValidationError")
            ELSE IF result.kind = "result"
            THEN [messages |-> <<bug.id \o " reproduction: " \o result.status>>,
                  bugs |-> <<[key |-> bug.id,
                              val |-> Bug(bug.id, bug.severity, result.status,
                                          bug.reproducibility_approach,
                                          bug.reproducibility_chance)]>>]
            ELSE [messages |-> <<"Failed to reproduce bug.">>]

\* Variant of fix_unit_test_bug_node that marks the bug SOLVED itself.
fix_unit_test_bug_node_marks_solved(state, result) ==
    LET prepared_bugs ==
            SelectSeq(Values(state.bugs),
                      LAMBDA b : b.status = "PREPARED_FOR_FIX"
                                 /\ b.reproducibility_approach = "UNIT_TEST")
    IN IF prepared_bugs = <<>> THEN Raise("IndexError")
       ELSE LET bug == First(prepared_bugs)
                updated_bug == Bug(bug.id, bug.severity, "SOLVED",
                                   bug.reproducibility_approach,
                                   bug.reproducibility_chance)
            IN
            IF result.kind = "raise" THEN Raise("ValidationError")
            ELSE IF result.kind = "result"
            THEN IF result.status = "READY_FOR_REVIEW"
                 THEN [messages |-> <<bug.id \o " fix: " \o result.status>>,
                       bugs |-> <<[key |-> bug.id, val |-> updated_bug]>>,
                       fixes |-> <<[key |-> bug.id,
                                    val |-> BugFix(bug.id, "IN_REVIEW", None)]>>]
                 ELSE [messages |-> <<bug.id \o " fix: " \o result.status>>,
                       bugs |-> <<[key |-> bug.id, val |-> updated_bug]>>]
            ELSE [messages |-> <<"Failed to fix bug.">>]

fix_unit_test_bug_node(state, result) ==
    LET prepared_bugs ==
            SelectSeq(Values(state.bugs),
                      LAMBDA b : b.status = "PREPARED_FOR_FIX"
                                 /\ b.reproducibility_approach = "UNIT_TEST")
    IN IF prepared_bugs = <<>> THEN Raise("IndexError")
       ELSE LET bug == First(prepared_bugs)
                updated_bug == Bug(bug.id, bug.severity, result.status,
                                   bug.reproducibility_approach,
                                   bug.reproducibility_chance)
            IN
            IF result.kind = "raise" THEN Raise("ValidationError")
            ELSE IF result.kind = "result"
            THEN IF result.status = "READY_FOR_REVIEW"
                 THEN [messages |-> <<bug.id \o " fix: " \o result.status>>,
                       bugs |-> <<[key |-> bug.id, val |-> updated_bug]>>,
                       fixes |-> <<[key |-> bug.id,
                                    val |-> BugFix(bug.id, "IN_REVIEW", None)]>>]
                 ELSE [messages |-> <<bug.id \o " fix: " \o result.status>>,
                       bugs |-> <<[key |-> bug.id, val |-> updated_bug]>>]
            ELSE [messages |-> <<"Failed to fix bug.">>]

refactor_fix_node(state, result) ==
    LET reviewable_bugs ==
            SelectSeq(Values(state.bugs),
                      LAMBDA b : b.status = "READY_FOR_REVIEW"
                                 /\ b.reproducibility_approach = "UNIT_TEST")
    IN IF reviewable_bugs = <<>> THEN Raise("IndexError")
       ELSE LET bug == First(reviewable_bugs) IN
            IF result.kind = "raise" THEN Raise("ValidationError")
            ELSE IF result.kind = "result"
            THEN [messages |-> <<bug.id \o " refactored">>]
            ELSE [messages |-> <<"Refactoring completed.">>]

\* Variant that records the verdict on the bug and leaves the fix as it is.
review_fix_node_leaves_fix(state, result) ==
    LET reviewable_bugs ==
            SelectSeq(Values(state.bugs),
                      LAMBDA b : b.status = "READY_FOR_REVIEW"
                                 /\ b.reproducibility_approach = "UNIT_TEST")
    IN IF reviewable_bugs = <<>> THEN Raise("IndexError")
       ELSE LET bug == First(reviewable_bugs)
                updated_bug == Bug(bug.id, bug.severity, result.status,
                                   bug.reproducibility_approach,
                                   bug.reproducibility_chance)
            IN
            IF result.kind = "raise" THEN Raise("ValidationError")
            ELSE IF result.kind = "result"
            THEN [messages |-> <<bug.id \o " review: " \o result.status>>,
                  bugs |-> <<[key |-> bug.id, val |-> updated_bug]>>]
            ELSE [messages |-> <<"Review completed.">>]

review_fix_node(state, result) ==
    LET reviewable_bugs ==
            SelectSeq(Values(state.bugs),
                      LAMBDA b : b.status = "READY_FOR_REVIEW"
                                 /\ b.reproducibility_approach = "UNIT_TEST")
    IN IF reviewable_bugs = <<>> THEN Raise("IndexError")
       ELSE LET bug == First(reviewable_bugs)
                updated_bug == Bug(bug.id, bug.severity, result.status,
                                   bug.reproducibility_approach,
                                   bug.reproducibility_chance)
            IN
            IF result.kind = "raise" THEN Raise("ValidationError")
            ELSE IF result.kind = "result"
            THEN IF HasKey(state.fixes, bug.id)
                 THEN LET existing_fix == Lookup(state.fixes, bug.id)
                          updated_fix ==
                              IF result.status = "SOLVED"
                              THEN BugFix(existing_fix.bug_id, "FINISHED",
                                          existing_fix.rejection_reason)
                              ELSE BugFix(existing_fix.bug_id, "REJECTED",
                                          result.rejection_reason)
                      IN [messages |-> <<bug.id \o " review: " \o result.status>>,
                          bugs |-> <<[key |-> bug.id, val |-> updated_bug]>>,
                          fixes |-> <<[key |-> bug.id, val |-> updated_fix]>>]
                 ELSE [messages |-> <<bug.id \o " review: " \o result.status>>,
                       bugs |-> <<[key |-> bug.id, val |-> updated_bug]>>]
            ELSE [messages |-> <<"Review completed.">>]

Nodes == {"suggest_entrypoint_node", "scout_node", "classify_bug_candidate_node",
          "reproduce_unit_test_bug_node", "fix_unit_test_bug_node",
          "refactor_fix_node", "review_fix_node"}

\* What run_agent may hand to the node: a result of its schema, None, or the
\* validation error.
GatewayResults(node) ==
    {NoneResult, RaisedResult} \cup
    CASE node = "suggest_entrypoint_node"      -> SuggestEntrypointsResults
      [] node = "scout_node"                   -> ScoutResults
      [] node = "classify_bug_candidate_node"  -> ClassifyResults
      [] node = "reproduce_unit_test_bug_node" -> ReproduceResults
      [] node = "fix_unit_test_bug_node"       -> FixResults
      [] node = "refactor_fix_node"            -> RefactorFixResults
      [] node = "review_fix_node"              -> ReviewFixResults

RunNode(node, state, result) ==
    CASE node = "suggest_entrypoint_node"      -> suggest_entrypoint_node(state, result)
      [] node = "scout_node"                   -> scout_node(state, result)
      [] node = "classify_bug_candidate_node"  -> classify_bug_candidate_node(state, result)
      [] node = "reproduce_unit_test_bug_node" -> reproduce_unit_test_bug_node(state, result)
      [] node = "fix_unit_test_bug_node"       -> fix_unit_test_bug_node(state, result)
      [] node = "refactor_fix_node"            -> refactor_fix_node(state, result)
      [] node = "review_fix_node"              -> review_fix_node(state, result)

\* workflow: the edge leaving the node that ran, evaluated on the new state.
\* review_requires_fix returns the string "END", which names no node, so no
\* node is scheduled and the stream ends.
workflow(node, state) ==
    CASE node = "START"                        -> check_state(state)
      [] node = "suggest_entrypoint_node"      -> check_state(state)
      [] node = "scout_node"                   -> "classify_bug_candidate_node"
      [] node = "classify_bug_candidate_node"  -> check_state(state)
      [] node = "reproduce_unit_test_bug_node" -> check_state(state)
      [] node = "fix_unit_test_bug_node"       -> "refactor_fix_node"
      [] node = "refactor_fix_node"            -> "review_fix_node"
      [] node = "review_fix_node"              -> review_requires_fix(state)

\* BugHunterState: every channel folds an update in with its reducer. The
\* messages channel (old + new) grows without bound and only its last entry is
\* read (main prints event["messages"][-1]); the model keeps that last entry.
LastOnly(messages) ==
    IF messages = <<>> THEN <<>> ELSE <<messages[Len(messages)]>>

BugHunterState(state, update) ==
    [messages |-> LastOnly(state.messages \o update.messages),
     bugs |-> IF "bugs" \in DOMAIN update
              THEN merge_bugs(state.bugs, update.bugs) ELSE state.bugs,
     fixes |-> IF "fixes" \in DOMAIN update
               THEN merge_fixes(state.fixes, update.fixes) ELSE state.fixes,
     entrypoints |-> IF "entrypoints" \in DOMAIN update
                     THEN replace_entrypoints(state.entrypoints, update.entrypoints)
                     ELSE state.entrypoints]

\* The channels before any input was written to them.
EmptyChannels ==
    [messages |-> <<>>, bugs |-> <<>>, fixes |-> <<>>, entrypoints |-> <<>>]

(***************************************************************************)
(* Checkpoint manager: checkpointing.py                                    *)
(***************************************************************************)
TicksPerSecond == 2

\* A file of the state directory: absent, or present with its content.
NoFile(empty) == [exists |-> FALSE, content |-> empty]
File(content) == [exists |-> TRUE, content |-> content]

\* str.strip() on the pointer texts of the model.
Strip(text) ==
    CASE text = "run-stale\n" -> "run-stale"
      [] text = "\n"          -> ""
      [] OTHER                -> text

\* generate_thread_id: the wall clock formatted with a resolution of one
\* second; t counts clock ticks.
generate_thread_id(t) == "run-" \o ToString(t \div TicksPerSecond)

\* Variant that leaves a pointer file that is already there alone.
save_thread_id_if_absent(files, thread_id) ==
    IF files.thread_file.exists THEN files
    ELSE [files EXCEPT !.thread_file = File(thread_id)]

\* Variant that opens the pointer file for appending.
save_thread_id_appends(files, thread_id) ==
    [files EXCEPT !.thread_file =
        File((IF files.thread_file.exists THEN files.thread_file.content ELSE "")
             \o thread_id)]

save_thread_id(files, thread_id) ==
    [files EXCEPT !.thread_file = File(thread_id)]

load_thread_id(files) ==
    IF files.thread_file.exists THEN Strip(files.thread_file.content) ELSE None

clear_thread_id(files) ==
    IF files.thread_file.exists
    THEN [files EXCEPT !.thread_file = NoFile("")]
    ELSE files

\* The checkpoint store: the latest snapshot of each thread id.
HasSnapshot(db, thread_id) == \E c \in db : c.thread_id = thread_id
Snapshot(db, thread_id) == CHOOSE c \in db : c.thread_id = thread_id
PutSnapshot(db, thread_id, values, next) ==
    {c \in db : c.thread_id # thread_id}
    \cup {[thread_id |-> thread_id, values |-> values, next |-> next]}

\* Variant that takes the pointer alone as the sign of an incomplete run.
check_for_incomplete_run_pointer_only(db, files) ==
    LET thread_id == load_thread_id(files) IN
    IF thread_id = None \/ thread_id = ""
    THEN [has_incomplete |-> FALSE, thread_id |-> None]
    ELSE [has_incomplete |-> TRUE, thread_id |-> thread_id]

check_for_incomplete_run(db, files) ==
    LET thread_id == load_thread_id(files) IN
    IF thread_id = None \/ thread_id = ""
    THEN [has_incomplete |-> FALSE, thread_id |-> None]
    ELSE IF HasSnapshot(db, thread_id)
         THEN [has_incomplete |-> TRUE, thread_id |-> thread_id]
         ELSE [has_incomplete |-> FALSE, thread_id |-> None]

(***************************************************************************)
(* Store documents: tracking.py                                            *)
(***************************************************************************)
load_initial_state(files) ==
    [bugs |-> IF files.bugs_json.exists THEN files.bugs_json.content ELSE <<>>,
     fixes |-> IF files.fixes_json.exists THEN files.fixes_json.content ELSE <<>>,
     entrypoints |-> IF files.entrypoints_json.exists
                     THEN files.entrypoints_json.content ELSE <<>>]

\* Variant that writes the bugs and the fixes but not the entrypoints.
persist_state_without_entrypoints(files, bugs, fixes, entrypoints, written) ==
    [files EXCEPT
        !.bugs_json = IF written >= 1 THEN File(bugs) ELSE @,
        !.fixes_json = IF written >= 2 THEN File(fixes) ELSE @]

\* persist_state writes the three documents one after the other; written is
\* the number of documents written before a write failed (3: none failed).
persist_state(files, bugs, fixes, entrypoints, written) ==
    [files EXCEPT
        !.bugs_json = IF written >= 1 THEN File(bugs) ELSE @,
        !.fixes_json = IF written >= 2 THEN File(fixes) ELSE @,
        !.entrypoints_json = IF written >= 3 THEN File(entrypoints) ELSE @]

(***************************************************************************)
(* The router applied to the stores load_initial_state can return          *)
(***************************************************************************)
VARIABLES
    router_state,   \* the BugHunterState the router is given
    router_next     \* what check_state returned (None before the call)

router_vars == <<router_state, router_next>>

\* Values the documents on disk are drawn from. MEDIUM and INTEGRATION_TEST
\* are only ever compared for equality with HIGH and UNIT_TEST.
StoreSeverities == {"HIGH", "LOW"}
StoreApproaches == {None, "UNIT_TEST", "MANUAL"}
Paths == {"a.go", "b.go"}

StoreBug(n) ==
    {Bug(BugId(n), sev, st, ap, IF ap = None THEN None ELSE "EASY") :
        sev \in StoreSeverities, st \in BugStatus, ap \in StoreApproaches}

\* Every ordered dict of at most MaxStoreBugs bugs with keys BUG-001.., each stored
\* under its own id.
RECURSIVE BugDicts(_)
BugDicts(ids) ==
    {<<>>} \cup
    UNION {{<<[key |-> BugId(n), val |-> b]>> \o rest :
                b \in StoreBug(n), rest \in BugDicts(ids \ {n})} : n \in ids}

Queues == {<<>>} \cup {<<p>> : p \in Paths}

RouterInit ==
    /\ router_state \in [messages : {<<"Starting the bug hunt">>},
                         bugs : BugDicts(1..MaxStoreBugs),
                         fixes : {<<>>},
                         entrypoints : Queues]
    /\ router_next = None

RouteCheckState ==
    /\ router_next = None
    /\ router_next' = check_state(router_state)
    /\ UNCHANGED router_state

(***************************************************************************)
(* The compiled workflow run on the stores load_initial_state can return   *)
(***************************************************************************)
VARIABLES
    pipe_state,     \* the BugHunterState channels
    pipe_next,      \* the node scheduled next, "END", "raised", None before START
    pipe_last,      \* history: the node that ran last ("START" for the entry edge)
    pipe_update     \* history: what that node returned

pipe_vars == <<pipe_state, pipe_next, pipe_last, pipe_update>>

\* Only REJECTED is ever tested for; IN_REVIEW stands for the other statuses.
StoreFixStatuses == {"IN_REVIEW", "REJECTED"}

StoreFix(id) ==
    {BugFix(id, st, IF st = "REJECTED" THEN "reason" ELSE None) :
        st \in StoreFixStatuses}

\* Every fixes dict that holds a fix for some of the given bug ids.
RECURSIVE FixDicts(_)
FixDicts(ids) ==
    IF ids = <<>> THEN {<<>>}
    ELSE LET rest == FixDicts(Tail(ids)) IN
         rest \cup {<<[key |-> Head(ids), val |-> f]>> \o r :
                        f \in StoreFix(Head(ids)), r \in rest}

\* The answers of the gateway, with every value a phase tells apart.
PipeResults(node) ==
    {NoneResult, RaisedResult} \cup
    CASE node = "suggest_entrypoint_node" ->
             [kind : {"result"}, entrypoints : {<<>>, <<"a.go">>, <<"a.go", "b.go">>},
              reasoning : {"reasoning"}]
      [] node = "scout_node" ->
             [kind : {"result"},
              bugs : UNION {[1..n -> [severity : {"HIGH", "LOW"}]] : n \in 0..MaxScout},
              exploration_summary : {"summary"}]
      [] node = "classify_bug_candidate_node" ->
             [kind : {"result"}, reproducibility_approach : {"UNIT_TEST", "MANUAL"},
              reproducibility_chance : {"EASY"}]
      [] node = "reproduce_unit_test_bug_node" -> ReproduceResults
      [] node = "fix_unit_test_bug_node"       -> FixResults
      [] node = "refactor_fix_node"            -> RefactorFixResults
      [] node = "review_fix_node" ->
             [kind : {"result"}, status : {"SOLVED", "PREPARED_FOR_FIX"},
              rejection_reason : {None, "reason"}]

NoUpdate == [messages |-> <<>>]

PipeInit ==
    /\ pipe_state \in
           UNION {[messages : {<<"Starting the bug hunt">>}, bugs : {b},
                   fixes : FixDicts([i \in DOMAIN b |-> b[i].key]),
                   entrypoints : Queues] : b \in BugDicts(1..MaxStoreBugs)}
    /\ pipe_next = None
    /\ pipe_last = None
    /\ pipe_update = NoUpdate

\* The entry edge: add_conditional_edges(START, check_state).
PipeStart ==
    /\ pipe_last = None
    /\ pipe_next' = workflow("START", pipe_state)
    /\ pipe_last' = "START"
    /\ UNCHANGED <<pipe_state, pipe_update>>

\* One superstep: the scheduled node runs; its update is folded into the
\* channels and the edge leaving it picks the next node, or the node raises
\* and the exception ends the stream.
PipePhase ==
    /\ pipe_next \in Nodes
    /\ \E result \in PipeResults(pipe_next) :
          /\ (pipe_next = "scout_node" /\ result.kind = "result")
                 => Len(pipe_state.bugs) + Len(result.bugs) <= MaxStoreBugs
          /\ LET update == RunNode(pipe_next, pipe_state, result) IN
             /\ pipe_update' = update
             /\ IF Raises(update)
                THEN /\ pipe_next' = "raised"
                     /\ UNCHANGED pipe_state
                ELSE /\ pipe_state' = BugHunterState(pipe_state, update)
                     /\ pipe_next' = workflow(pipe_next, pipe_state')
    /\ pipe_last' = pipe_next

(***************************************************************************)
(* One scout phase, on any store that makes check_state choose it           *)
(***************************************************************************)
MaxFindings == 2

\* ScoutResult values with up to MaxFindings findings.
ScoutFindings ==
    [kind : {"result"},
     bugs : UNION {[1..n -> [severity : {"HIGH", "LOW"}]] : n \in 0..MaxFindings},
     exploration_summary : {"summary"}]

\* Queues of one and of two entries.
ScoutQueues == {<<p>> : p \in Paths} \cup {<<p, q>> : p, q \in Paths}

ScoutInit ==
    /\ pipe_state \in
           [messages : {<<"Starting the bug hunt">>}, bugs : BugDicts(1..MaxStoreBugs),
            fixes : {<<>>}, entrypoints : ScoutQueues]
    /\ check_state(pipe_state) = "scout_node"
    /\ pipe_next = "scout_node"
    /\ pipe_last = None
    /\ pipe_update = NoUpdate

ScoutPhase ==
    /\ pipe_next = "scout_node"
    /\ \E result \in {NoneResult, RaisedResult} \cup ScoutFindings :
          LET update == RunNode(pipe_next, pipe_state, result) IN
          /\ pipe_update' = update
          /\ IF Raises(update)
             THEN /\ pipe_next' = "raised"
                  /\ UNCHANGED pipe_state
             ELSE /\ pipe_state' = BugHunterState(pipe_state, update)
                  /\ pipe_next' = workflow(pipe_next, pipe_state')
    /\ pipe_last' = pipe_next

(***************************************************************************)
(* The notebook: runs of the workflow and the clear command of cli.py, on   *)
(* one state directory that starts empty                                    *)
(***************************************************************************)
VARIABLES
    issued,         \* history: the ids scout_node has given to new bugs, in order
    details         \* the ids that have a detail file bugs/<id>.md

nb_vars == <<issued, details>>

MaxIssued == 3

\* Variant of clear that deletes the POTENTIAL bugs only.
clear_potential_only(store) ==
    [store EXCEPT
        !.entrypoints = <<>>,
        !.bugs = SelectSeq(store.bugs, LAMBDA e : e.val.status # "POTENTIAL")]

\* BugHunterNotebook.clear: the queue is emptied and the bugs that are
\* POTENTIAL or IN_ANALYSIS are deleted; fixes.json is not touched.
clear(store) ==
    [store EXCEPT
        !.entrypoints = <<>>,
        !.bugs = SelectSeq(store.bugs,
                           LAMBDA e : e.val.status \notin {"POTENTIAL", "IN_ANALYSIS"})]

\* The detail files clear leaves: the file of every bug it deletes is removed
\* if it exists (bug_ids_to_remove is what clear takes out of the bugs).
clear_details(store, files) ==
    files \ (Keys(store.bugs) \ Keys(clear(store).bugs))

\* save_bug_details as the phases call it: scout_node writes the file of
\* every bug it adds, the other phases rewrite the file of the bug they
\* worked on when the agent returned a result.
save_bug_details(files, update) ==
    IF "bugs" \in DOMAIN update THEN files \cup Keys(update.bugs) ELSE files

NotebookInit ==
    /\ pipe_state \in [messages : {<<"Starting the bug hunt">>}, bugs : {<<>>},
                       fixes : {<<>>}, entrypoints : Queues]
    /\ pipe_next = None
    /\ pipe_last = None
    /\ pipe_update = NoUpdate
    /\ issued = <<>>
    /\ details = {}

NotebookStart == PipeStart /\ UNCHANGED <<issued, details>>

\* A phase of the run; the ids of the bugs a scout phase returned are issued.
NotebookPhase ==
    /\ PipePhase
    /\ issued' = IF pipe_next = "scout_node" /\ "bugs" \in DOMAIN pipe_update'
                 THEN issued \o [i \in DOMAIN pipe_update'.bugs |-> pipe_update'.bugs[i].key]
                 ELSE issued
    /\ Len(issued') <= MaxIssued
    /\ details' = save_bug_details(details, pipe_update')

\* The run has ended and main has written the documents (persist_state in
\* its finally block); the clear command rewrites them and the next run
\* loads what it left.
NotebookClear ==
    /\ pipe_next \in {"END", "raised"}
    /\ pipe_state' = [clear(pipe_state) EXCEPT !.messages = <<"Starting the bug hunt">>]
    /\ pipe_next' = None
    /\ pipe_last' = None
    /\ pipe_update' = NoUpdate
    /\ details' = clear_details(pipe_state, details)
    /\ UNCHANGED issued

(***************************************************************************)
(* The run: main() of bug_hunter.py, invoked again and again on one state   *)
(* directory                                                               *)
(***************************************************************************)
MaxRuns == 2
MaxNow == 2
MaxBugs == 1

VARIABLES
    now,            \* the wall clock, in ticks
    disk,           \* the state directory: thread_file and the three documents
    checkpoint_db,  \* checkpoints.db: the latest snapshot of every thread id
    pc,             \* where main() stands; "off" when no process runs
    main,           \* the local variables of main()
    graph,          \* the compiled workflow while it streams: values and next node
    runs,           \* number of invocations so far
    hist            \* history of the invocation, read by the properties only

run_vars == <<now, disk, checkpoint_db, pc, main, graph, runs, hist>>

\* Python's None where a state dict is expected.
NoneState == [none |-> TRUE]

\* parse_args: --resume and --no-resume are mutually exclusive.
Args == {[resume |-> TRUE, no_resume |-> FALSE],
         [resume |-> FALSE, no_resume |-> TRUE],
         [resume |-> FALSE, no_resume |-> FALSE]}

MainLocals ==
    [has_incomplete |-> FALSE, existing_thread_id |-> None,
     should_resume |-> FALSE, thread_id |-> None,
     initial_state |-> NoneState, final_state |-> NoneState,
     run_completed |-> FALSE]

NoGraph == [values |-> EmptyChannels, next |-> None]

\* What the previous invocation left behind, as seen when the next one starts.
NoPrev == [thread_id |-> None, exit |-> "none", saved |-> FALSE,
           had_snapshot |-> FALSE]

NewHist(generated, prev) ==
    [generated |-> generated,   \* every id generate_thread_id returned, in order
     prev |-> prev,             \* how the previous invocation ended
     dangling |-> FALSE,        \* the pointer found at start named no snapshot
     prompted |-> FALSE,        \* prompt_resume was called
     thread_id |-> None,        \* the id this invocation runs under
     fresh_id |-> None,         \* the id generated by this invocation
     loaded |-> NoneState,      \* what load_initial_state returned
     resumed |-> NoneState,     \* the snapshot values found when resuming
     first |-> NoneState,       \* the first state the stream yielded
     ran_phase |-> FALSE,       \* some phase has executed
     loop_exit |-> "none",      \* natural / exception / cancel
     persist |-> "none",        \* written / failed / skipped
     exit |-> "none"]           \* returned / raised / interrupted / killed

\* The state directories a first invocation may find: no documents at all, or
\* documents left by earlier use; no pointer, a blank pointer, or a pointer
\* naming a run the checkpoint store knows nothing about.
InitialPointers == {NoFile(""), File("\n"), File("run-stale\n")}

InitialDocuments ==
    {[bugs_json |-> NoFile(<<>>), fixes_json |-> NoFile(<<>>),
      entrypoints_json |-> NoFile(<<>>)],
     [bugs_json |-> File(<<>>), fixes_json |-> File(<<>>),
      entrypoints_json |-> File(<<"a.go">>)]}

RunInit ==
    /\ now = 0
    /\ disk \in {[thread_file |-> p, bugs_json |-> d.bugs_json,
                  fixes_json |-> d.fixes_json,
                  entrypoints_json |-> d.entrypoints_json] :
                     p \in InitialPointers, d \in InitialDocuments}
    /\ checkpoint_db = {}
    /\ pc = "off"
    /\ main = MainLocals
    /\ graph = NoGraph
    /\ runs = 0
    /\ hist = NewHist(<<>>, NoPrev)

\* The clock advances. Only the reading taken by generate_thread_id matters,
\* so time is let pass between invocations.
Tick ==
    /\ pc = "off"
    /\ now < MaxNow
    /\ now' = now + 1
    /\ UNCHANGED <<disk, checkpoint_db, pc, main, graph, runs, hist>>

\* main() is invoked: the checkpointer is opened, the workflow compiled.
Start ==
    /\ pc = "off"
    /\ runs < MaxRuns
    /\ runs' = runs + 1
    /\ main' = MainLocals
    /\ graph' = NoGraph
    /\ hist' = NewHist(hist.generated,
                       [thread_id |-> hist.thread_id,
                        exit |-> hist.exit,
                        saved |-> hist.thread_id # None
                                  /\ disk.thread_file = File(hist.thread_id),
                        had_snapshot |-> HasSnapshot(checkpoint_db, hist.thread_id)])
    /\ pc' = "check"
    /\ UNCHANGED <<now, disk, checkpoint_db>>

CheckForIncompleteRun ==
    /\ pc = "check"
    /\ LET r == check_for_incomplete_run(checkpoint_db, disk) IN
       main' = [main EXCEPT !.has_incomplete = r.has_incomplete,
                            !.existing_thread_id = r.thread_id]
    /\ hist' = [hist EXCEPT !.dangling =
                   \/ ~disk.thread_file.exists
                   \/ ~HasSnapshot(checkpoint_db, Strip(disk.thread_file.content))]
    /\ pc' = "decide"
    /\ UNCHANGED <<now, disk, checkpoint_db, graph, runs>>

\* thread_id = generate_thread_id(); load_initial_state; initial_state = {...}
StartFresh(should_resume, prompted) ==
    LET thread_id == generate_thread_id(now)
        loaded == load_initial_state(disk)
    IN /\ main' = [main EXCEPT
                     !.should_resume = should_resume,
                     !.thread_id = thread_id,
                     !.initial_state =
                         [messages |-> <<"Starting the bug hunt">>,
                          bugs |-> loaded.bugs, fixes |-> loaded.fixes,
                          entrypoints |-> loaded.entrypoints]]
       /\ hist' = [hist EXCEPT !.generated = Append(@, thread_id),
                               !.thread_id = thread_id,
                               !.fresh_id = thread_id,
                               !.loaded = loaded,
                               !.prompted = prompted]

\* thread_id = existing_thread_id; initial_state = None
StartResume(prompted) ==
    /\ main' = [main EXCEPT !.should_resume = TRUE,
                            !.thread_id = main.existing_thread_id,
                            !.initial_state = NoneState]
    /\ hist' = [hist EXCEPT !.thread_id = main.existing_thread_id,
                            !.prompted = prompted]

\* Lines 805-835: resume or start fresh. flags are the command line flags,
\* answer is what prompt_resume returns when it is called.
Decide ==
    /\ pc = "decide"
    /\ IF main.has_incomplete /\ main.existing_thread_id # None
       THEN \E flags \in Args :
               IF flags.resume THEN StartResume(FALSE)
               ELSE IF flags.no_resume THEN StartFresh(FALSE, FALSE)
               ELSE \E answer \in BOOLEAN :
                       IF answer THEN StartResume(TRUE) ELSE StartFresh(FALSE, TRUE)
       ELSE StartFresh(FALSE, FALSE)
    /\ pc' = "save"
    /\ UNCHANGED <<now, disk, checkpoint_db, graph, runs>>

SaveThreadId ==
    /\ pc = "save"
    /\ disk' = save_thread_id(disk, main.thread_id)
    /\ pc' = "stream"
    /\ UNCHANGED <<now, checkpoint_db, main, graph, runs, hist>>

\* app.astream(initial_state, run_config, stream_mode="values") up to its
\* first event. With input None the graph continues from the snapshot stored
\* under the thread id. With an input the channels are restored from the
\* thread's snapshot if it has one (empty otherwise), the input is folded in by
\* the reducers, the START edge is evaluated and the snapshot is stored. In
\* both cases the first event is the state the run starts from.
StreamFirst ==
    /\ pc = "stream"
    /\ IF main.initial_state = NoneState
       THEN LET snap == Snapshot(checkpoint_db, main.thread_id) IN
            /\ graph' = [values |-> snap.values, next |-> snap.next]
            /\ hist' = [hist EXCEPT !.resumed = snap.values, !.first = snap.values]
            /\ UNCHANGED checkpoint_db
       ELSE LET base == IF HasSnapshot(checkpoint_db, main.thread_id)
                        THEN Snapshot(checkpoint_db, main.thread_id).values
                        ELSE EmptyChannels
                values == BugHunterState(base, main.initial_state)
                next == workflow("START", values)
            IN /\ graph' = [values |-> values, next |-> next]
               /\ checkpoint_db' =
                      PutSnapshot(checkpoint_db, main.thread_id, values, next)
               /\ hist' = [hist EXCEPT !.first = values]
    /\ main' = [main EXCEPT !.final_state = graph'.values]
    /\ pc' = "loop"
    /\ UNCHANGED <<now, disk, runs>>

\* The agent reports at most MaxBugs bugs over the life of a store.
WithinBounds(node, state, result) ==
    (node = "scout_node" /\ result.kind = "result")
        => Len(state.bugs) + Len(result.bugs) <= MaxBugs

\* One superstep: the next node runs, its update is folded into the channels,
\* the edge leaving it is evaluated, the snapshot is stored and the new state
\* is yielded to the loop of main (final_state = event).
PhaseStep ==
    /\ pc = "loop"
    /\ graph.next \in Nodes
    /\ \E result \in GatewayResults(graph.next) :
          /\ WithinBounds(graph.next, graph.values, result)
          /\ LET update == RunNode(graph.next, graph.values, result) IN
             /\ ~Raises(update)
             /\ LET values == BugHunterState(graph.values, update)
                    next == workflow(graph.next, values)
                IN /\ graph' = [values |-> values, next |-> next]
                   /\ checkpoint_db' =
                          PutSnapshot(checkpoint_db, main.thread_id, values, next)
                   /\ main' = [main EXCEPT !.final_state = values]
    /\ hist' = [hist EXCEPT !.ran_phase = TRUE]
    /\ UNCHANGED <<now, disk, pc, runs>>

\* The node raises (an empty selection indexed, or the result message carried
\* no structured output): nothing is written and the exception leaves astream.
PhaseRaises ==
    /\ pc = "loop"
    /\ graph.next \in Nodes
    /\ \E result \in GatewayResults(graph.next) :
          Raises(RunNode(graph.next, graph.values, result))
    /\ hist' = [hist EXCEPT !.ran_phase = TRUE, !.loop_exit = "exception"]
    /\ pc' = "finally"
    /\ UNCHANGED <<now, disk, checkpoint_db, main, graph, runs>>

\* The stream is exhausted: run_completed = True.
LoopEnds ==
    /\ pc = "loop"
    /\ graph.next = "END"
    /\ main' = [main EXCEPT !.run_completed = TRUE]
    /\ hist' = [hist EXCEPT !.loop_exit = "natural"]
    /\ pc' = "finally"
    /\ UNCHANGED <<now, disk, checkpoint_db, graph, runs>>

\* The loop is left while it waits: the operator interrupts the run, or the
\* engine, the checkpointer or the gateway connection raises. This can happen
\* before the first event as well.
LoopAborts ==
    /\ pc \in {"stream", "loop"}
    /\ \E how \in {"exception", "cancel"} :
          hist' = [hist EXCEPT !.loop_exit = how]
    /\ pc' = "finally"
    /\ UNCHANGED <<now, disk, checkpoint_db, main, graph, runs>>

\* The process is gone: its memory with it. What the history keeps of the
\* invocation is how it ended.
Exit(h, how) ==
    /\ hist' = [h EXCEPT !.exit = how, !.loaded = NoneState,
                         !.resumed = NoneState, !.first = NoneState]
    /\ main' = MainLocals
    /\ graph' = NoGraph
    /\ pc' = "off"

\* Variant of the finally block that clears the pointer before it writes.
PersistFinalState_clear_first ==
    /\ pc = "finally"
    /\ IF main.final_state = NoneState
       THEN /\ hist' = [hist EXCEPT !.persist = "skipped"]
            /\ pc' = "clear"
            /\ UNCHANGED <<disk, main, graph>>
       ELSE \E written \in 0..3 :
               LET cleared == IF main.run_completed THEN clear_thread_id(disk)
                              ELSE disk
               IN /\ disk' = persist_state(cleared, main.final_state.bugs,
                                           main.final_state.fixes,
                                           main.final_state.entrypoints, written)
                  /\ IF written = 3
                     THEN /\ hist' = [hist EXCEPT !.persist = "written"]
                          /\ pc' = "clear"
                          /\ UNCHANGED <<main, graph>>
                     ELSE Exit([hist EXCEPT !.persist = "failed"], "raised")
    /\ UNCHANGED <<now, checkpoint_db, runs>>

\* finally: if final_state: persist_state(...). A failed write raises out of
\* main, so clear_thread_id is not reached.
PersistFinalState ==
    /\ pc = "finally"
    /\ IF main.final_state = NoneState
       THEN /\ hist' = [hist EXCEPT !.persist = "skipped"]
            /\ pc' = "clear"
            /\ UNCHANGED <<disk, main, graph>>
       ELSE \E written \in 0..3 :
               /\ disk' = persist_state(disk, main.final_state.bugs,
                                        main.final_state.fixes,
                                        main.final_state.entrypoints, written)
               /\ IF written = 3
                  THEN /\ hist' = [hist EXCEPT !.persist = "written"]
                       /\ pc' = "clear"
                       /\ UNCHANGED <<main, graph>>
                  ELSE Exit([hist EXCEPT !.persist = "failed"], "raised")
    /\ UNCHANGED <<now, checkpoint_db, runs>>

\* Variant of the end of the finally block that clears the pointer however
\* the loop was left.
ClearAndExit_always ==
    /\ pc = "clear"
    /\ disk' = clear_thread_id(disk)
    /\ Exit(hist, CASE hist.loop_exit = "natural"   -> "returned"
                    [] hist.loop_exit = "exception" -> "raised"
                    [] hist.loop_exit = "cancel"    -> "interrupted")
    /\ UNCHANGED <<now, checkpoint_db, runs>>

\* finally: if run_completed: clear_thread_id(...); then main is left: it
\* returns, or the exception or the interrupt that left the loop goes on.
ClearAndExit ==
    /\ pc = "clear"
    /\ disk' = IF main.run_completed THEN clear_thread_id(disk) ELSE disk
    /\ Exit(hist, CASE hist.loop_exit = "natural"   -> "returned"
                    [] hist.loop_exit = "exception" -> "raised"
                    [] hist.loop_exit = "cancel"    -> "interrupted")
    /\ UNCHANGED <<now, checkpoint_db, runs>>

\* The process dies where it stands (killed, power loss): no finally block runs.
Crash ==
    /\ pc # "off"
    /\ Exit(hist, "killed")
    /\ UNCHANGED <<now, disk, checkpoint_db, runs>>

(***************************************************************************)
(* The executor: one phase's conversation with the gateway                 *)
(* (run_agent of bug_hunter.py, _run_agent of tdd_subgraph.py and the loop  *)
(* of planner.py's ideate_node)                                             *)
(***************************************************************************)
VARIABLES
    gw_executor,    \* the phase that talks to the gateway
    gw_requests,    \* the requests (client.query calls) it has issued, in order
    gw_status       \* "waiting" for the response, or how the phase ended

gw_vars == <<gw_executor, gw_requests, gw_status>>

MaxQueries == 4

TddNodes == {"write_tests", "implement", "refactor", "review"}

Executors == Nodes \cup TddNodes \cup {"ideate_node"}

\* What one response stream can hold: no message with structured output, a
\* structured output of the schema, or one the schema rejects.
Responses == {"none", "structured", "invalid"}

\* run_agent and _run_agent: one query; the first structured output is
\* validated and returned, and a stream without one makes them return None.
run_agent(response) ==
    CASE response = "structured" -> "result"
      [] response = "invalid"    -> "raised"
      [] response = "none"       -> "failed"

\* What the user types at a prompt of ideate_node; "" is end of input.
UserInputs == {"", "y", "n", "exit", "text"}

\* The turns of ideate_node: what IdeationState the gateway answered with.
IdeationTurns == {"none", "spec", "ready", "message"}

\* ideate_node, one pass of its while loop: the query it issues next, or how
\* it ends.
ideate_turn(turn, user_inp) ==
    CASE turn = "none"  -> [query |-> "Please respond using the correct structured format."]
      [] turn = "spec"  -> [ends |-> "result"]
      [] turn = "ready" ->
             IF user_inp = "" THEN [ends |-> "exit"]
             ELSE IF user_inp = "y"
             THEN [query |-> "Proceed to generate the specification now."]
             ELSE [query |-> "User wants to continue discussion."]
      [] turn = "message" ->
             IF user_inp \in {"", "exit"} THEN [ends |-> "exit"]
             ELSE [query |-> user_inp]

GatewayInit ==
    /\ gw_executor \in Executors
    /\ gw_requests = <<IF gw_executor = "ideate_node"
                       THEN "Introduce yourself and ask the first clarification question."
                       ELSE "prompt">>
    /\ gw_status = "waiting"

\* The response of the gateway reaches run_agent or _run_agent.
AgentReturns ==
    /\ gw_status = "waiting"
    /\ gw_executor # "ideate_node"
    /\ \E response \in Responses : gw_status' = run_agent(response)
    /\ UNCHANGED <<gw_executor, gw_requests>>

\* The response of the gateway reaches the loop of ideate_node.
IdeateTurn ==
    /\ gw_status = "waiting"
    /\ gw_executor = "ideate_node"
    /\ \E turn \in IdeationTurns, user_inp \in UserInputs :
          LET step == ideate_turn(turn, user_inp) IN
          IF "query" \in DOMAIN step
          THEN /\ Len(gw_requests) < MaxQueries
               /\ gw_requests' = Append(gw_requests, step.query)
               /\ UNCHANGED gw_status
          ELSE /\ gw_status' = step.ends
               /\ UNCHANGED gw_requests
    /\ UNCHANGED gw_executor

(***************************************************************************)
(* The reducers applied to a channel: BugHunterState of bug_hunter.py       *)
(***************************************************************************)
VARIABLES
    red_channel,    \* the channel: "bugs", "fixes" or "entrypoints"
    red_existing,   \* the value of the channel
    red_new,        \* the first update written to it
    red_later,      \* the second update written to it
    red_out         \* the values of the channel after each update so far

red_vars == <<red_channel, red_existing, red_new, red_later, red_out>>

\* The reducer the channel is annotated with.
reduce(channel, existing, new) ==
    CASE channel = "bugs"        -> merge_bugs(existing, new)
      [] channel = "fixes"       -> merge_fixes(existing, new)
      [] channel = "entrypoints" -> replace_entrypoints(existing, new)

\* Two records that differ, for every id.
ReducerRecords(channel, id) ==
    IF channel = "bugs"
    THEN {Bug(id, "HIGH", st, None, None) : st \in {"POTENTIAL", "SOLVED"}}
    ELSE {BugFix(id, st, None) : st \in {"IN_REVIEW", "FINISHED"}}

\* Every dict over some of the ids, in every insertion order.
RECURSIVE ReducerDicts(_, _)
ReducerDicts(channel, ids) ==
    {<<>>} \cup
    UNION {{<<[key |-> id, val |-> v]>> \o d :
               v \in ReducerRecords(channel, id),
               d \in ReducerDicts(channel, ids \ {id})} : id \in ids}

ReducerIds == {BugId(n) : n \in 1..MaxStoreBugs}

\* Every list of at most two paths.
ReducerLists == {<<>>} \cup {<<p>> : p \in Paths} \cup {<<p, q>> : p, q \in Paths}

ReducerInit ==
    /\ red_channel \in {"bugs", "fixes", "entrypoints"}
    /\ IF red_channel = "entrypoints"
       THEN /\ red_existing \in ReducerLists
            /\ red_new \in ReducerLists \cup {Unset}
            /\ red_later \in ReducerLists \cup {Unset}
       ELSE /\ red_existing \in ReducerDicts(red_channel, ReducerIds)
            /\ red_new \in ReducerDicts(red_channel, ReducerIds)
            /\ red_later \in ReducerDicts(red_channel, ReducerIds)
    /\ red_out = <<>>

\* The first update is folded into the channel.
ReduceNew ==
    /\ red_out = <<>>
    /\ red_out' = <<reduce(red_channel, red_existing, red_new)>>
    /\ UNCHANGED <<red_channel, red_existing, red_new, red_later>>

\* The second update is folded into the channel.
ReduceLater ==
    /\ Len(red_out) = 1
    /\ red_out' = Append(red_out, reduce(red_channel, red_out[1], red_later))
    /\ UNCHANGED <<red_channel, red_existing, red_new, red_later>>

(***************************************************************************)
(* Specifications                                                          *)
(***************************************************************************)
(***************************************************************************)
(* The pointer file: save_thread_id and clear_thread_id called in any       *)
(* order on one state directory                                             *)
(***************************************************************************)
VARIABLES
    ptr_files,      \* the state directory: thread_file
    ptr_calls       \* history: the calls made so far, in order

ptr_vars == <<ptr_files, ptr_calls>>

MaxCalls == 5

\* The identifiers main() passes to save_thread_id: what generate_thread_id
\* returned, or what load_thread_id returned for the run it resumes.
ThreadIds == {generate_thread_id(t) : t \in 0..MaxNow * TicksPerSecond}

PointerInit ==
    /\ ptr_files \in [thread_file : InitialPointers]
    /\ ptr_calls = <<>>

SavePointer ==
    /\ Len(ptr_calls) < MaxCalls
    /\ \E thread_id \in ThreadIds :
          /\ ptr_files' = save_thread_id(ptr_files, thread_id)
          /\ ptr_calls' = Append(ptr_calls, [call |-> "save", thread_id |-> thread_id])

ClearPointer ==
    /\ Len(ptr_calls) < MaxCalls
    /\ ptr_files' = clear_thread_id(ptr_files)
    /\ ptr_calls' = Append(ptr_calls, [call |-> "clear", thread_id |-> None])

vars == <<tdd_vars, router_vars, pipe_vars, run_vars, gw_vars, nb_vars, red_vars,
          ptr_vars>>

\* A component that is not running.
TddIdle ==
    /\ tdd_config = [task_type |-> "bug_fix", max_review_attempts |-> 0]
    /\ tdd_state = initial_tdd_state
    /\ tdd_next = "idle"
    /\ tdd_result = NoTDDResult
    /\ tdd_reviews = 0
    /\ tdd_implements = 0
    /\ tdd_last = [node |-> None, outcome |-> None]
    /\ tdd_all_rejected = TRUE

RouterIdle ==
    /\ router_state = EmptyChannels
    /\ router_next = "idle"

PipeIdle ==
    /\ pipe_state = EmptyChannels
    /\ pipe_next = "idle"
    /\ pipe_last = "idle"
    /\ pipe_update = NoUpdate

GatewayIdle ==
    /\ gw_executor = "idle"
    /\ gw_requests = <<>>
    /\ gw_status = "idle"

NotebookIdle == issued = <<>> /\ details = {}

ReducerIdle ==
    /\ red_channel = "idle"
    /\ red_existing = <<>>
    /\ red_new = <<>>
    /\ red_later = <<>>
    /\ red_out = <<>>

PointerIdle ==
    /\ ptr_files = [thread_file |-> NoFile("")]
    /\ ptr_calls = <<>>

RunIdle ==
    /\ now = 0
    /\ disk = [thread_file |-> NoFile(""), bugs_json |-> NoFile(<<>>),
               fixes_json |-> NoFile(<<>>), entrypoints_json |-> NoFile(<<>>)]
    /\ checkpoint_db = {}
    /\ pc = "idle"
    /\ main = MainLocals
    /\ graph = NoGraph
    /\ runs = 0
    /\ hist = NewHist(<<>>, NoPrev)

\* The main program, run and re-run on one state directory.
Init == RunInit /\ TddIdle /\ RouterIdle /\ PipeIdle /\ GatewayIdle /\ NotebookIdle /\ ReducerIdle /\ PointerIdle

Next ==
    \/ Tick /\ UNCHANGED <<tdd_vars, router_vars, pipe_vars, gw_vars, nb_vars, red_vars, ptr_vars>>
    \/ Start /\ UNCHANGED <<tdd_vars, router_vars, pipe_vars, gw_vars, nb_vars, red_vars, ptr_vars>>
    \/ CheckForIncompleteRun /\ UNCHANGED <<tdd_vars, router_vars, pipe_vars, gw_vars, nb_vars, red_vars, ptr_vars>>
    \/ Decide /\ UNCHANGED <<tdd_vars, router_vars, pipe_vars, gw_vars, nb_vars, red_vars, ptr_vars>>
    \/ SaveThreadId /\ UNCHANGED <<tdd_vars, router_vars, pipe_vars, gw_vars, nb_vars, red_vars, ptr_vars>>
    \/ StreamFirst /\ UNCHANGED <<tdd_vars, router_vars, pipe_vars, gw_vars, nb_vars, red_vars, ptr_vars>>
    \/ PhaseStep /\ UNCHANGED <<tdd_vars, router_vars, pipe_vars, gw_vars, nb_vars, red_vars, ptr_vars>>
    \/ PhaseRaises /\ UNCHANGED <<tdd_vars, router_vars, pipe_vars, gw_vars, nb_vars, red_vars, ptr_vars>>
    \/ LoopEnds /\ UNCHANGED <<tdd_vars, router_vars, pipe_vars, gw_vars, nb_vars, red_vars, ptr_vars>>
    \/ LoopAborts /\ UNCHANGED <<tdd_vars, router_vars, pipe_vars, gw_vars, nb_vars, red_vars, ptr_vars>>
    \/ PersistFinalState /\ UNCHANGED <<tdd_vars, router_vars, pipe_vars, gw_vars, nb_vars, red_vars, ptr_vars>>
    \/ ClearAndExit /\ UNCHANGED <<tdd_vars, router_vars, pipe_vars, gw_vars, nb_vars, red_vars, ptr_vars>>
    \/ Crash /\ UNCHANGED <<tdd_vars, router_vars, pipe_vars, gw_vars, nb_vars, red_vars, ptr_vars>>

Spec == Init /\ [][Next]_vars

\* One call of run_tdd_subgraph.
TddSpecInit == TddInit /\ RouterIdle /\ PipeIdle /\ RunIdle /\ GatewayIdle /\ NotebookIdle /\ ReducerIdle /\ PointerIdle

TddSpecNext ==
    \/ WriteTests /\ UNCHANGED <<router_vars, pipe_vars, run_vars, gw_vars, nb_vars, red_vars, ptr_vars>>
    \/ Implement /\ UNCHANGED <<router_vars, pipe_vars, run_vars, gw_vars, nb_vars, red_vars, ptr_vars>>
    \/ Refactor /\ UNCHANGED <<router_vars, pipe_vars, run_vars, gw_vars, nb_vars, red_vars, ptr_vars>>
    \/ Review /\ UNCHANGED <<router_vars, pipe_vars, run_vars, gw_vars, nb_vars, red_vars, ptr_vars>>
    \/ TddReturn /\ UNCHANGED <<router_vars, pipe_vars, run_vars, gw_vars, nb_vars, red_vars, ptr_vars>>

TddSpec == TddSpecInit /\ [][TddSpecNext]_vars

\* Every gateway call returns and the graph engine keeps scheduling the next
\* node, so a step that is possible is eventually taken.
TddFairSpec == TddSpec /\ WF_vars(TddSpecNext)

\* One evaluation of the phase router.
RouterSpecInit == RouterInit /\ TddIdle /\ PipeIdle /\ RunIdle /\ GatewayIdle /\ NotebookIdle /\ ReducerIdle /\ PointerIdle

RouterSpecNext == RouteCheckState /\ UNCHANGED <<tdd_vars, pipe_vars, run_vars, gw_vars, nb_vars, red_vars, ptr_vars>>

RouterSpec == RouterSpecInit /\ [][RouterSpecNext]_vars

\* The workflow run from any store the documents can hold.
PipelineSpecInit == PipeInit /\ TddIdle /\ RouterIdle /\ RunIdle /\ GatewayIdle /\ NotebookIdle /\ ReducerIdle /\ PointerIdle

PipelineSpecNext ==
    \/ PipeStart /\ UNCHANGED <<tdd_vars, router_vars, run_vars, gw_vars, nb_vars, red_vars, ptr_vars>>
    \/ PipePhase /\ UNCHANGED <<tdd_vars, router_vars, run_vars, gw_vars, nb_vars, red_vars, ptr_vars>>

PipelineSpec == PipelineSpecInit /\ [][PipelineSpecNext]_vars

\* Every gateway call returns and the graph engine runs the node it has
\* scheduled, so a step that is possible is eventually taken.
PipelineFairSpec == PipelineSpec /\ WF_vars(PipelineSpecNext)

\* One phase's conversation with the gateway.
GatewaySpecInit == GatewayInit /\ TddIdle /\ RouterIdle /\ PipeIdle /\ RunIdle /\ NotebookIdle /\ ReducerIdle /\ PointerIdle

GatewaySpecNext ==
    \/ AgentReturns /\ UNCHANGED <<tdd_vars, router_vars, pipe_vars, run_vars, nb_vars, red_vars, ptr_vars>>
    \/ IdeateTurn /\ UNCHANGED <<tdd_vars, router_vars, pipe_vars, run_vars, nb_vars, red_vars, ptr_vars>>

GatewaySpec == GatewaySpecInit /\ [][GatewaySpecNext]_vars

\* Runs and clear commands on a state directory that starts without items.
NotebookSpecInit == NotebookInit /\ TddIdle /\ RouterIdle /\ RunIdle /\ GatewayIdle /\ ReducerIdle /\ PointerIdle

NotebookSpecNext ==
    \/ NotebookStart /\ UNCHANGED <<tdd_vars, router_vars, run_vars, gw_vars, red_vars, ptr_vars>>
    \/ NotebookPhase /\ UNCHANGED <<tdd_vars, router_vars, run_vars, gw_vars, red_vars, ptr_vars>>
    \/ NotebookClear /\ UNCHANGED <<tdd_vars, router_vars, run_vars, gw_vars, red_vars, ptr_vars>>

NotebookSpec == NotebookSpecInit /\ [][NotebookSpecNext]_vars

\* Two updates folded into one channel by its reducer.
ReducerSpecInit ==
    ReducerInit /\ TddIdle /\ RouterIdle /\ PipeIdle /\ RunIdle /\ GatewayIdle /\ NotebookIdle
    /\ PointerIdle

ReducerSpecNext ==
    \/ ReduceNew /\ UNCHANGED <<tdd_vars, router_vars, pipe_vars, run_vars, gw_vars, nb_vars, ptr_vars>>
    \/ ReduceLater /\ UNCHANGED <<tdd_vars, router_vars, pipe_vars, run_vars, gw_vars, nb_vars, ptr_vars>>

ReducerSpec == ReducerSpecInit /\ [][ReducerSpecNext]_vars

\* One scout phase.
ScoutSpecInit ==
    ScoutInit /\ TddIdle /\ RouterIdle /\ RunIdle /\ GatewayIdle /\ NotebookIdle
    /\ ReducerIdle /\ PointerIdle

ScoutSpecNext ==
    ScoutPhase /\ UNCHANGED <<tdd_vars, router_vars, run_vars, gw_vars, nb_vars, red_vars, ptr_vars>>

ScoutSpec == ScoutSpecInit /\ [][ScoutSpecNext]_vars

\* Calls of the pointer functions on one state directory, in any order.
PointerSpecInit ==
    PointerInit /\ TddIdle /\ RouterIdle /\ PipeIdle /\ RunIdle /\ GatewayIdle /\ NotebookIdle
    /\ ReducerIdle

PointerSpecNext ==
    \/ SavePointer /\ UNCHANGED <<tdd_vars, router_vars, pipe_vars, run_vars, gw_vars, nb_vars, red_vars>>
    \/ ClearPointer /\ UNCHANGED <<tdd_vars, router_vars, pipe_vars, run_vars, gw_vars, nb_vars, red_vars>>

PointerSpec == PointerSpecInit /\ [][PointerSpecNext]_vars

(***************************************************************************)
(* Properties of the bounded retry subworkflow                             *)
(***************************************************************************)

\* C1: with max_review_attempts = N, a run performs at most N review
\* evaluations and at most N+1 implement attempts, in every reachable state.
C1_BoundedAttempts ==
    /\ tdd_reviews <= tdd_config.max_review_attempts
    /\ tdd_implements <= tdd_config.max_review_attempts + 1

TerminalStatuses == {"SUCCESS", "DISCARDED", "MAX_ATTEMPTS_REACHED"}

\* C2: every run eventually returns a result whose status is SUCCESS,
\* DISCARDED or MAX_ATTEMPTS_REACHED, whatever the gateway answers.
C2_Terminates ==
    <>(tdd_next = "returned" /\ tdd_result.status \in TerminalStatuses)

\* A run that went through the review -> implement loop and then returned.
C2_Witness ==
    /\ tdd_next = "returned"
    /\ tdd_result.status \in TerminalStatuses
    /\ tdd_reviews >= 2
    /\ tdd_implements >= 2

(***************************************************************************)
(* Properties of the run lifecycle                                         *)
(***************************************************************************)
\* The pointer file as the next start will find it.
Pointer == disk.thread_file

\* main() was left through its own code (not killed).
Exited == pc = "off" /\ hist.exit \in {"returned", "raised", "interrupted"}

\* The three documents of a state, as load_initial_state returns them.
StoreOf(state) ==
    [bugs |-> state.bugs, fixes |-> state.fixes, entrypoints |-> state.entrypoints]

\* The three documents exist and hold the state.
DiskHolds(state) ==
    /\ disk.bugs_json = File(state.bugs)
    /\ disk.fixes_json = File(state.fixes)
    /\ disk.entrypoints_json = File(state.entrypoints)

\* C3 as stated: after main() is left, the pointer is cleared if and only if
\* the run loop reached its natural termination; otherwise it still names the
\* run.
C3_ClearedIffNatural ==
    Exited =>
        /\ ~Pointer.exists <=> hist.loop_exit = "natural"
        /\ Pointer.exists => Pointer = File(hist.thread_id)

\* C3 amended: after main() is left, the pointer is cleared if and only if
\* the run loop reached its natural termination and the write of the
\* documents on exit did not fail; in every other case (exception,
\* cancellation, failed write) the pointer still names the run.
C3_ClearedIffNaturalAndWritten ==
    Exited =>
        /\ ~Pointer.exists <=>
               (hist.loop_exit = "natural" /\ hist.persist # "failed")
        /\ Pointer.exists => Pointer = File(hist.thread_id)

\* A cancelled run that had executed a phase left main() with its pointer.
C3_Witness ==
    /\ Exited
    /\ hist.exit = "interrupted"
    /\ hist.ran_phase
    /\ hist.persist = "written"
    /\ Pointer = File(hist.thread_id)

\* The previous invocation ended abnormally while the pointer named its run.
PrevAbnormal ==
    /\ hist.prev.exit \in {"killed", "raised", "interrupted"}
    /\ hist.prev.saved

\* C4 as stated: a crash at any point after the pointer write, also before
\* any snapshot exists, is detected as an incomplete run on the next start.
C4_CrashAlwaysDetected ==
    (pc = "decide" /\ hist.prev.exit = "killed" /\ hist.prev.saved)
        => main.has_incomplete

\* C4 amended: the run identifier is in the pointer before the first phase
\* executes, and an abnormal end after the pointer write is detected as an
\* incomplete run of that identifier on the next start exactly when a
\* snapshot had been stored under it; a crash between the pointer write and
\* the first snapshot is not detected.
C4_DetectedOnceSnapshotExists ==
    /\ (pc \in {"stream", "loop", "finally", "clear"})
           => Pointer = File(main.thread_id)
    /\ (hist.ran_phase /\ pc # "off") => Pointer = File(main.thread_id)
    /\ (pc = "decide" /\ PrevAbnormal) =>
           /\ main.has_incomplete <=> hist.prev.had_snapshot
           /\ main.has_incomplete =>
                  main.existing_thread_id = hist.prev.thread_id

\* The run before was killed after its first snapshot and is detected.
C4_Witness ==
    /\ pc = "decide"
    /\ hist.prev.exit = "killed"
    /\ hist.prev.saved
    /\ hist.prev.had_snapshot
    /\ main.has_incomplete
    /\ main.existing_thread_id = hist.prev.thread_id

\* C5: when the pointer is absent, blank or names a run without a snapshot,
\* the start reports no incomplete run, does not prompt, and goes on as a
\* fresh run: it generates an identifier, loads the documents and overwrites
\* the pointer with the generated identifier.
C5_DanglingPointerStartsFresh ==
    (hist.dangling /\ pc # "off") =>
        /\ ~main.has_incomplete
        /\ main.existing_thread_id = None
        /\ ~hist.prompted
        /\ (pc \in {"save", "stream", "loop", "finally", "clear"}) =>
               /\ ~main.should_resume
               /\ hist.fresh_id = generate_thread_id(now)
               /\ main.thread_id = hist.fresh_id
               /\ StoreOf(main.initial_state) = hist.loaded
        /\ (pc \in {"save", "stream", "loop", "finally"}) =>
               hist.loaded = load_initial_state(disk)
        /\ (pc \in {"stream", "loop", "finally", "clear"}) =>
               Pointer = File(hist.fresh_id)

\* The pointer named the run of a killed invocation that had stored no
\* snapshot, and the next invocation runs fresh.
C5_Witness ==
    /\ pc = "loop"
    /\ hist.dangling
    /\ hist.prev.exit = "killed"
    /\ hist.prev.saved
    /\ ~hist.prev.had_snapshot
    /\ hist.ran_phase
    /\ Pointer = File(hist.fresh_id)

\* C6: a resumed run keeps the identifier of the incomplete run and starts
\* from the state last checkpointed under it, without loading the documents;
\* a fresh run uses the identifier it generated and starts from the state
\* loaded from the documents.
C6_StartState ==
    (pc = "loop") =>
        IF main.should_resume
        THEN /\ main.thread_id = main.existing_thread_id
             /\ hist.first = hist.resumed
             /\ hist.loaded = NoneState
        ELSE /\ main.thread_id = hist.fresh_id
             /\ StoreOf(hist.first) = hist.loaded

\* C7: generate_thread_id never returns an identifier that an earlier
\* invocation got.
C7_UniqueIds ==
    \A i, j \in DOMAIN hist.generated :
        i # j => hist.generated[i] # hist.generated[j]

\* C8 as stated: on every exit of the run loop the documents are written and
\* equal the last state the loop produced.
C8_AlwaysWritten ==
    /\ hist.persist \notin {"failed", "skipped"}
    /\ (pc = "clear") => DiskHolds(graph.values)

\* C8 amended: on every exit of the run loop (natural, exception or
\* cancellation) after the loop produced at least one state, the documents
\* are written from the last state produced, and when the write does not fail
\* they equal it; an exit before the first state writes nothing.
C8_WrittenWhenStateProduced ==
    /\ (pc = "clear" /\ hist.first # NoneState) =>
           /\ hist.persist = "written"
           /\ main.final_state = graph.values
           /\ DiskHolds(graph.values)
    /\ (pc = "clear" /\ hist.first = NoneState) =>
           /\ hist.persist = "skipped"
           /\ main.final_state = NoneState
    /\ (hist.persist = "failed") => hist.first # NoneState \/ pc = "off"

\* A cancelled loop whose last state holds a bug, written on exit.
C8_Witness ==
    /\ pc = "clear"
    /\ hist.loop_exit = "cancel"
    /\ hist.persist = "written"
    /\ graph.values.bugs # <<>>
    /\ DiskHolds(graph.values)

\* C9: a failed write of the documents on exit leaves main() with the
\* exception, and the pointer still names the run, also when the loop had
\* reached its natural termination.
C9_FailedWriteKeepsPointer ==
    (hist.persist = "failed") =>
        /\ pc = "off"
        /\ hist.exit = "raised"
        /\ Pointer = File(hist.thread_id)

\* The loop ended naturally and the write on exit failed.
C9_Witness ==
    /\ hist.persist = "failed"
    /\ hist.loop_exit = "natural"
    /\ pc = "off"

(***************************************************************************)
(* Properties of the phase router                                          *)
(***************************************************************************)

\* C10: the router selects the review phase exactly when some bug is
\* READY_FOR_REVIEW with the UNIT_TEST approach.
C10_ReviewIffUnitTest ==
    (router_next \notin {None, "idle"}) =>
        (router_next = "review_fix_node" <=>
            \E i \in DOMAIN router_state.bugs :
                /\ router_state.bugs[i].val.status = "READY_FOR_REVIEW"
                /\ router_state.bugs[i].val.reproducibility_approach = "UNIT_TEST")

\* The bugs of a store as a set: what a statement about "some item" ranges over.
StoredBugs(store) == {store.bugs[i].val : i \in DOMAIN store.bugs}

\* Every dict with the same id -> record mapping as d: the same entries in
\* another insertion order.
Reorderings(d) ==
    {[i \in DOMAIN d |-> d[p[i]]] : p \in Permutations(DOMAIN d)}

\* The documented priority list below the review rule, read off the set of
\* stored bugs and the queue.
PriorityBelowReview(store) ==
    IF \E b \in StoredBugs(store) :
           b.status = "PREPARED_FOR_FIX" /\ b.reproducibility_approach = "UNIT_TEST"
    THEN "fix_unit_test_bug_node"
    ELSE IF \E b \in StoredBugs(store) :
                b.status = "IN_ANALYSIS" /\ b.reproducibility_approach = "UNIT_TEST"
    THEN "reproduce_unit_test_bug_node"
    ELSE IF \E b \in StoredBugs(store) :
                b.status = "POTENTIAL" /\ b.severity = "HIGH"
    THEN "classify_bug_candidate_node"
    ELSE IF store.entrypoints # <<>> THEN "scout_node"
    ELSE "suggest_entrypoint_node"

\* C11: for a store without a READY_FOR_REVIEW bug the router returns the
\* first matching entry of the priority list fix, reproduce, classify, scout,
\* suggest-entrypoints, and returns the same phase for every insertion order
\* of the same bugs.
C11_PriorityList ==
    (/\ router_next \notin {None, "idle"}
     /\ \A b \in StoredBugs(router_state) : b.status # "READY_FOR_REVIEW") =>
        /\ router_next = PriorityBelowReview(router_state)
        /\ \A d \in Reorderings(router_state.bugs) :
               check_state([router_state EXCEPT !.bugs = d]) = router_next

\* A store where a later bug matches a higher rule than an earlier one: the
\* first bug is to classify, the second to fix.
C11_Witness ==
    /\ router_next = "fix_unit_test_bug_node"
    /\ Len(router_state.bugs) = 2
    /\ router_state.bugs[1].val.status = "POTENTIAL"
    /\ router_state.bugs[1].val.severity = "HIGH"
    /\ router_state.bugs[2].val.status = "PREPARED_FOR_FIX"
    /\ router_state.bugs[2].val.reproducibility_approach = "UNIT_TEST"

ItemPhases == {"classify_bug_candidate_node", "reproduce_unit_test_bug_node",
               "fix_unit_test_bug_node", "refactor_fix_node", "review_fix_node"}

\* C13: the item a phase acts on depends only on the id -> record mapping of
\* the store (the lowest matching id): whenever classify, reproduce, fix,
\* refactor or review is scheduled, the phase returns the same update, for
\* every answer of the gateway, on every store that holds the same items
\* under the same ids in another order.
C13_OrderIndependent ==
    pipe_next \in ItemPhases =>
        \A result \in PipeResults(pipe_next) :
            \A d \in Reorderings(pipe_state.bugs) :
                RunNode(pipe_next, [pipe_state EXCEPT !.bugs = d], result)
                    = RunNode(pipe_next, pipe_state, result)

StoredFixes(store) == {store.fixes[i].val : i \in DOMAIN store.fixes}

RejectedFixPending(store) ==
    \E b \in StoredBugs(store) :
        /\ b.status = "PREPARED_FOR_FIX"
        /\ b.reproducibility_approach = "UNIT_TEST"
        /\ \E f \in StoredFixes(store) : f.bug_id = b.id /\ f.status = "REJECTED"

\* C14: once a review phase has returned, the fix phase is scheduled next if
\* and only if the store holds an item that is PREPARED_FOR_FIX with the
\* UNIT_TEST approach and whose fix is REJECTED; in every other case the run
\* ends.
C14_PostReviewRouting ==
    (pipe_last = "review_fix_node" /\ pipe_next # "raised") =>
        /\ pipe_next = "fix_unit_test_bug_node" <=> RejectedFixPending(pipe_state)
        /\ pipe_next # "fix_unit_test_bug_node" => pipe_next = "END"

C14_Witness ==
    /\ pipe_last = "review_fix_node"
    /\ pipe_next = "fix_unit_test_bug_node"
    /\ "fixes" \in DOMAIN pipe_update
    /\ pipe_update.fixes[1].val.status = "REJECTED"
    /\ RejectedFixPending(pipe_state)

C14_WitnessNoFixRecord ==
    /\ pipe_last = "review_fix_node"
    /\ pipe_next = "END"
    /\ "bugs" \in DOMAIN pipe_update
    /\ pipe_update.bugs[1].val.status = "PREPARED_FOR_FIX"
    /\ "fixes" \notin DOMAIN pipe_update

PotentialHigh(store) ==
    {b \in StoredBugs(store) : b.status = "POTENTIAL" /\ b.severity = "HIGH"}

ScoutAddedHigh ==
    /\ pipe_last = "scout_node"
    /\ "bugs" \in DOMAIN pipe_update
    /\ \E i \in DOMAIN pipe_update.bugs :
           /\ pipe_update.bugs[i].val.status = "POTENTIAL"
           /\ pipe_update.bugs[i].val.severity = "HIGH"

\* C15: with no items and a non-empty queue the first phase is scout; when a
\* scout phase has added a POTENTIAL item of HIGH severity the next phase is
\* classify; classify, when it is answered, acts on a POTENTIAL item of HIGH
\* severity; and scout is never scheduled while such an item is waiting.
C15_ScoutThenClassify ==
    /\ (pipe_last = "START" /\ pipe_state.bugs = <<>> /\ pipe_state.entrypoints # <<>>)
           => pipe_next = "scout_node"
    /\ ScoutAddedHigh => pipe_next = "classify_bug_candidate_node"
    /\ (pipe_next = "classify_bug_candidate_node" /\ PotentialHigh(pipe_state) # {})
           => \A result \in PipeResults(pipe_next) :
                  result.kind = "result" =>
                      LET update == RunNode(pipe_next, pipe_state, result) IN
                      \E b \in PotentialHigh(pipe_state) : update.bugs[1].key = b.id
    /\ pipe_next = "scout_node" => PotentialHigh(pipe_state) = {}

C15_Witness ==
    /\ ScoutAddedHigh
    /\ pipe_next = "classify_bug_candidate_node"
    /\ pipe_state.entrypoints # <<>>
    /\ PotentialHigh(pipe_state) # {}

C15_WitnessFirstPhase ==
    /\ pipe_last = "START"
    /\ pipe_state.bugs = <<>>
    /\ pipe_next = "scout_node"

\* C16: when the implement phase was answered DISCARDED the run ends there (no
\* phase follows) and returns status DISCARDED; when it was answered
\* READY_FOR_REVIEW the next phase is refactor.
C16_ImplementDiscardEnds ==
    tdd_last.node = "implement" =>
        /\ tdd_last.outcome = "DISCARDED" =>
               /\ tdd_next \in {"END", "returned"}
               /\ tdd_next = "returned" => tdd_result.status = "DISCARDED"
        /\ tdd_last.outcome = "READY_FOR_REVIEW" => tdd_next = "refactor"

\* C17: when the write_tests phase was answered DISCARDED the run ends there
\* (no phase follows) and returns status DISCARDED; when it was answered
\* with any other result the next phase is implement.
C17_WriteTestsDiscardEnds ==
    tdd_last.node = "write_tests" =>
        /\ tdd_last.outcome = "DISCARDED" =>
               /\ tdd_next \in {"END", "returned"}
               /\ tdd_next = "returned" => tdd_result.status = "DISCARDED"
        /\ tdd_last.outcome \notin {"DISCARDED", "none"} => tdd_next = "implement"

C17_Witness ==
    /\ tdd_last = [node |-> "write_tests", outcome |-> "DISCARDED"]
    /\ tdd_next = "returned"
    /\ tdd_result.status = "DISCARDED"
    /\ tdd_implements = 0
    /\ tdd_reviews = 0

C17_WitnessImplement ==
    /\ tdd_last = [node |-> "write_tests", outcome |-> "PREPARED_FOR_FIX"]
    /\ tdd_next = "implement"

\* C18: a write_tests, implement or review phase that got no structured
\* result from the gateway is the last phase of the run, and the run returns
\* DISCARDED (write_tests, implement) or MAX_ATTEMPTS_REACHED (review).
C18_NoResultEnds ==
    (tdd_last.outcome = "none" /\ tdd_last.node \in {"write_tests", "implement", "review"}) =>
        /\ tdd_next \in {"END", "returned"}
        /\ tdd_next = "returned" =>
               tdd_result.status = IF tdd_last.node = "review"
                                   THEN "MAX_ATTEMPTS_REACHED" ELSE "DISCARDED"

\* The entry a rejecting review can add to the history: its rejection_reason,
\* or its notes when it gave no reason.
RejectionEntries ==
    {IF r.rejection_reason # None THEN r.rejection_reason ELSE r.notes :
        r \in {x \in ReviewResults : x.status = "REJECTED"}}

\* C19: every review evaluation adds exactly one to review_attempts. After a
\* SUCCESS the run ends and returns SUCCESS. After a rejection the history
\* is the old history with one entry appended; the run then ends with
\* MAX_ATTEMPTS_REACHED when review_attempts has reached max_review_attempts,
\* and otherwise implement is next and its prompt carries the whole history.
C19_ReviewEvaluation ==
    /\ [](tdd_last.node = "review" /\ tdd_last.outcome = "SUCCESS" =>
              /\ tdd_next \in {"END", "returned"}
              /\ tdd_next = "returned" => tdd_result.status = "SUCCESS")
    /\ [](tdd_last.node = "review" /\ tdd_last.outcome = "REJECTED"
            /\ tdd_state.review_attempts >= tdd_config.max_review_attempts =>
              /\ tdd_next \in {"END", "returned"}
              /\ tdd_next = "returned" =>
                     /\ tdd_result.status = "MAX_ATTEMPTS_REACHED"
                     /\ tdd_result.rejection_history = tdd_state.rejection_history)
    /\ [][tdd_next = "review" =>
              /\ tdd_state'.review_attempts = tdd_state.review_attempts + 1
              /\ tdd_last'.outcome = "SUCCESS" =>
                     /\ tdd_next' = "END"
                     /\ tdd_state'.rejection_history = tdd_state.rejection_history
              /\ tdd_last'.outcome = "REJECTED" =>
                     /\ \E e \in RejectionEntries :
                            tdd_state'.rejection_history =
                                Append(tdd_state.rejection_history, e)
                     /\ IF tdd_state'.review_attempts >= tdd_config.max_review_attempts
                        THEN tdd_next' = "END"
                        ELSE /\ tdd_next' = "implement"
                             /\ implement_prompt(tdd_state') =
                                    tdd_state'.rejection_history]_vars

C19_Witness ==
    /\ tdd_last = [node |-> "review", outcome |-> "REJECTED"]
    /\ tdd_next = "implement"
    /\ tdd_state.review_attempts = 2
    /\ Len(tdd_state.rejection_history) = 2
    /\ tdd_state.rejection_history[1] # tdd_state.rejection_history[2]

\* C20: a run in which write_tests and implement never discarded and every
\* review rejected returns MAX_ATTEMPTS_REACHED with a rejection history of
\* exactly max_review_attempts entries.
C20_HistoryLengthIsMax ==
    (tdd_next = "returned" /\ tdd_all_rejected) =>
        /\ tdd_result.status = "MAX_ATTEMPTS_REACHED"
        /\ Len(tdd_result.rejection_history) = tdd_config.max_review_attempts

(***************************************************************************)
(* Properties of the executor                                              *)
(***************************************************************************)

\* C21: a phase is treated as failed for want of a structured result only
\* after the executor has re-issued its request at least once, and every
\* request it issued in the phase is the same request.
C21_ReissueBeforeFailure ==
    gw_status = "failed" =>
        /\ Len(gw_requests) >= 2
        /\ \A i \in DOMAIN gw_requests : gw_requests[i] = gw_requests[1]

(***************************************************************************)
(* Properties of the phases of the main pipeline                           *)
(***************************************************************************)

\* The message a phase returns when the gateway gave it no result.
FailureMessage(node) ==
    CASE node = "suggest_entrypoint_node"      -> "Failed to suggest entrypoints."
      [] node = "scout_node"                   -> "No bugs found."
      [] node = "classify_bug_candidate_node"  -> "Failed to classify bug."
      [] node = "reproduce_unit_test_bug_node" -> "Failed to reproduce bug."
      [] node = "fix_unit_test_bug_node"       -> "Failed to fix bug."
      [] node = "refactor_fix_node"            -> "Refactoring completed."
      [] node = "review_fix_node"              -> "Review completed."

\* The phase that ran last was given no result by the gateway.
PhaseFailed ==
    /\ pipe_last \in Nodes
    /\ ~Raises(pipe_update)
    /\ pipe_update.messages = <<FailureMessage(pipe_last)>>

\* C22: a classify, reproduce, fix, refactor or review phase that gets no
\* structured result returns an update with a message and nothing else, and
\* the step leaves every bug and every fix of the store as it was.
C22_FailedPhaseFrame ==
    /\ [](pipe_next \in ItemPhases =>
              LET update == RunNode(pipe_next, pipe_state, NoneResult) IN
              Raises(update) \/ DOMAIN update = {"messages"})
    /\ [][(pipe_next \in ItemPhases /\ PhaseFailed') =>
              /\ pipe_state'.bugs = pipe_state.bugs
              /\ pipe_state'.fixes = pipe_state.fixes
              /\ pipe_state'.entrypoints = pipe_state.entrypoints
              /\ pipe_state'.messages = <<FailureMessage(pipe_next)>>]_vars

C22_Witness ==
    /\ pipe_last = "review_fix_node"
    /\ PhaseFailed
    /\ \E b \in StoredBugs(pipe_state) : b.status = "READY_FOR_REVIEW"
    /\ pipe_state.fixes # <<>>

\* C23: after a phase that got no structured result the run loop does not end
\* with an unhandled exception: the phase itself returns a message, and the
\* phase scheduled after it does not raise IndexError.
C23_FailureNeverCrashes ==
    /\ [](PhaseFailed => pipe_next # "raised")
    /\ [][PhaseFailed =>
              ~(pipe_next' = "raised" /\ pipe_update' = Raise("IndexError"))]_vars

\* The status changes each phase owns.
OwnedTransitions(node) ==
    CASE node = "classify_bug_candidate_node" ->
             {<<"POTENTIAL", "IN_ANALYSIS">>}
      [] node = "reproduce_unit_test_bug_node" ->
             {<<"IN_ANALYSIS", "PREPARED_FOR_FIX">>, <<"IN_ANALYSIS", "DISCARDED">>}
      [] node = "fix_unit_test_bug_node" ->
             {<<"PREPARED_FOR_FIX", "READY_FOR_REVIEW">>, <<"PREPARED_FOR_FIX", "DISCARDED">>}
      [] node = "review_fix_node" ->
             {<<"READY_FOR_REVIEW", "SOLVED">>, <<"READY_FOR_REVIEW", "PREPARED_FOR_FIX">>}
      [] OTHER -> {}

\* A step of the pipeline that keeps every bug, changes a status only along a
\* transition the phase owns, and adds bugs only as POTENTIAL and from scout.
OwnedStep ==
    /\ \A k \in Keys(pipe_state.bugs) :
           /\ HasKey(pipe_state'.bugs, k)
           /\ LET old == Lookup(pipe_state.bugs, k).status
                  new == Lookup(pipe_state'.bugs, k).status
              IN /\ old # new => <<old, new>> \in OwnedTransitions(pipe_next)
                 /\ old \in {"SOLVED", "DISCARDED"} => new = old
    /\ \A k \in Keys(pipe_state'.bugs) \ Keys(pipe_state.bugs) :
           /\ pipe_next = "scout_node"
           /\ Lookup(pipe_state'.bugs, k).status = "POTENTIAL"

\* C24: in every step of the pipeline no bug leaves the store, a bug that
\* changes status does so along a transition owned by the phase that ran,
\* a new bug is POTENTIAL and comes from scout, and a SOLVED or DISCARDED bug
\* keeps its status.
C24_StatusTransitions == [][(pipe_next \in Nodes) => OwnedStep]_vars

C24_Witness ==
    /\ pipe_last = "review_fix_node"
    /\ ~Raises(pipe_update)
    /\ "bugs" \in DOMAIN pipe_update
    /\ pipe_update.bugs[1].val.status = "SOLVED"
    /\ \E b \in StoredBugs(pipe_state) : b.status = "DISCARDED"

(***************************************************************************)
(* Properties of the notebook                                              *)
(***************************************************************************)

\* C25: no identifier is given to two bugs: the ids scout has issued over
\* the runs and clear commands on one state directory are pairwise distinct.
C25_IdsNeverReused ==
    \A i, j \in DOMAIN issued : issued[i] = issued[j] => i = j

\* What a step of the pipeline may do to the queue.
QueueStep ==
    \/ pipe_state'.entrypoints = pipe_state.entrypoints
    \/ /\ pipe_next = "scout_node"
       /\ pipe_state.entrypoints # <<>>
       /\ pipe_state'.entrypoints = Tail(pipe_state.entrypoints)
    \/ /\ pipe_next = "suggest_entrypoint_node"
       /\ pipe_state.entrypoints = <<>>

\* C26: every step of the pipeline leaves the queue unchanged, or (scout
\* only) turns it into its tail, or (suggest only, and only when the queue
\* was empty) replaces it as a whole.
C26_QueueSteps == [][QueueStep]_vars

C26_Witness ==
    /\ pipe_last = "scout_node"
    /\ "entrypoints" \in DOMAIN pipe_update
    /\ pipe_state.entrypoints = <<"b.go">>
    /\ pipe_next = "classify_bug_candidate_node"

C26_WitnessReplaced ==
    /\ pipe_last = "suggest_entrypoint_node"
    /\ "entrypoints" \in DOMAIN pipe_update
    /\ Len(pipe_state.entrypoints) = 2

\* C27: a run performs only finitely many review evaluations: from some
\* point on the review phase is never scheduled again.
C27_FinitelyManyReviews == <>[](pipe_next # "review_fix_node")

(***************************************************************************)
(* Properties of the reducers                                              *)
(***************************************************************************)

\* C28: merge_bugs and merge_fixes return a dict whose keys are the keys of
\* both arguments, with the new value for every key of the new dict and the
\* existing value for every other key, and with one record per key.
C28_MergeIsUnionPreferringNew ==
    (red_channel \in {"bugs", "fixes"} /\ Len(red_out) >= 1) =>
        LET merged == red_out[1] IN
        /\ Keys(merged) = Keys(red_existing) \cup Keys(red_new)
        /\ DistinctKeys(merged)
        /\ \A k \in Keys(red_new) : Lookup(merged, k) = Lookup(red_new, k)
        /\ \A k \in Keys(red_existing) \ Keys(red_new) :
               Lookup(merged, k) = Lookup(red_existing, k)

C28_Witness ==
    /\ red_channel = "bugs"
    /\ Len(red_out) >= 1
    /\ Keys(red_existing) = ReducerIds
    /\ Keys(red_new) = {BugId(1)}
    /\ Lookup(red_existing, BugId(1)) # Lookup(red_new, BugId(1))
    /\ Lookup(red_out[1], BugId(1)) = Lookup(red_new, BugId(1))

\* The same dict as a mapping: Python compares dicts without their order.
SameDict(d, e) ==
    /\ DistinctKeys(d)
    /\ DistinctKeys(e)
    /\ Keys(d) = Keys(e)
    /\ \A k \in Keys(d) : Lookup(d, k) = Lookup(e, k)

\* C29: the reducers of the bugs and fixes channels are associative,
\* merge(merge(A, B), C) = merge(A, merge(B, C)), and folding the same update
\* in again changes nothing, merge(merge(A, B), B) = merge(A, B).
C29_AssociativeIdempotent ==
    (red_channel \in {"bugs", "fixes"} /\ Len(red_out) = 2) =>
        /\ SameDict(red_out[2],
                    reduce(red_channel, red_existing,
                           reduce(red_channel, red_new, red_later)))
        /\ SameDict(reduce(red_channel, red_out[1], red_new), red_out[1])

C29_Witness ==
    /\ red_channel = "fixes"
    /\ Len(red_out) = 2
    /\ Keys(red_existing) = {BugId(1)}
    /\ Keys(red_new) = ReducerIds
    /\ Keys(red_later) = {BugId(2)}
    /\ Lookup(red_new, BugId(2)) # Lookup(red_later, BugId(2))
    /\ Lookup(red_out[2], BugId(2)) = Lookup(red_later, BugId(2))

\* C30: replace_entrypoints returns the existing list when the new value is
\* None, and the new list itself otherwise, the empty list included.
C30_ReplaceOrKeep ==
    (red_channel = "entrypoints" /\ Len(red_out) >= 1) =>
        /\ red_new = Unset => red_out[1] = red_existing
        /\ red_new # Unset => red_out[1] = red_new
        /\ red_new = <<>> => red_out[1] = <<>>

C30_Witness ==
    /\ red_channel = "entrypoints"
    /\ Len(red_out) >= 1
    /\ red_existing = <<"a.go", "b.go">>
    /\ red_new = <<>>
    /\ red_out[1] = <<>>

\* The clear command acts: a finished run's documents are rewritten.
ClearRuns == pipe_next \in {"END", "raised"} /\ pipe_next' = None

Cleared(store) ==
    {k \in Keys(store.bugs) :
        Lookup(store.bugs, k).status \in {"POTENTIAL", "IN_ANALYSIS"}}

ClearEffect ==
    /\ pipe_state'.entrypoints = <<>>
    /\ Keys(pipe_state'.bugs) = Keys(pipe_state.bugs) \ Cleared(pipe_state)
    /\ \A k \in Keys(pipe_state'.bugs) :
          Lookup(pipe_state'.bugs, k) = Lookup(pipe_state.bugs, k)
    /\ DistinctKeys(pipe_state'.bugs)
    /\ details' = details \ Cleared(pipe_state)
    /\ pipe_state'.fixes = pipe_state.fixes
    /\ (pipe_state.bugs = <<>> /\ pipe_state.fixes = <<>>)
          => (pipe_state'.bugs = <<>> /\ pipe_state'.fixes = <<>> /\ details' = details)

LastSaved ==
    LET last == ptr_calls[Len(ptr_calls)] IN
    IF last.call = "save" THEN last.thread_id ELSE None

LoadIsLastSaved ==
    ptr_calls # <<>> =>
        /\ load_thread_id(ptr_files) = LastSaved
        /\ ptr_files.thread_file.exists <=> LastSaved # None
        /\ ptr_files.thread_file.exists => ptr_files.thread_file.content \in ThreadIds

ClearOfAbsentPointer ==
    /\ ~ptr_files.thread_file.exists
    /\ ptr_calls' = Append(ptr_calls, [call |-> "clear", thread_id |-> None])

\* C32: after any sequence of save_thread_id and clear_thread_id calls,
\* load_thread_id returns the identifier of the most recent save if no clear
\* followed it and None otherwise; the pointer file holds one identifier at
\* most, and clearing an absent pointer changes nothing.
C32_LoadReturnsLastSave ==
    /\ []LoadIsLastSaved
    /\ [](ptr_calls = <<>> /\ ~ptr_files.thread_file.exists
            => load_thread_id(ptr_files) = None)
    /\ [][ClearOfAbsentPointer => ptr_files' = ptr_files]_vars

\* A save, a clear, a clear of the absent pointer, then two saves of
\* different identifiers: the last one is loaded.
C32_Witness ==
    /\ Len(ptr_calls) = 5
    /\ ptr_calls[1].call = "save"
    /\ ptr_calls[2].call = "clear"
    /\ ptr_calls[3].call = "clear"
    /\ ptr_calls[4].call = "save"
    /\ ptr_calls[5].call = "save"
    /\ ptr_calls[4].thread_id # ptr_calls[5].thread_id
    /\ load_thread_id(ptr_files) = ptr_calls[5].thread_id

\* The refactor phase runs for a task type that has no refactor template.
RefactorWithoutTemplate ==
    /\ tdd_next = "refactor"
    /\ ~HasRefactorTemplate(tdd_config.task_type)
    /\ tdd_last'.node = "refactor"

\* C33: the refactor phase is always followed by review, and for the task
\* type without a refactor template it asks the gateway nothing and changes
\* only the phase marker.
C33_RefactorThenReview ==
    /\ [](tdd_last.node = "refactor" => tdd_next = "review")
    /\ [][tdd_next = "refactor" /\ tdd_last'.node = "refactor"
             => tdd_next' = "review" /\ tdd_state'.phase = "review"]_vars
    /\ [][RefactorWithoutTemplate =>
             /\ tdd_state' = [tdd_state EXCEPT !.phase = "review"]
             /\ tdd_last'.outcome = "skipped"]_vars

\* The refactor phase has run for the refactor task type after an implement
\* phase that left notes, and review is next.
C33_Witness ==
    /\ tdd_config.task_type = "refactor"
    /\ tdd_last = [node |-> "refactor", outcome |-> "skipped"]
    /\ tdd_next = "review"
    /\ Len(tdd_state.implementation_notes) >= 2

IsPrefix(s, t) == Len(s) <= Len(t) /\ \A i \in DOMAIN s : s[i] = t[i]

\* C34: the accumulated notes only grow: after every phase the notes from
\* before the phase are a prefix of the notes after it.
C34_NotesOnlyGrow ==
    [][IsPrefix(tdd_state.implementation_notes, tdd_state'.implementation_notes)]_vars

\* The status a phase selects its bug by (the approach is UNIT_TEST for all).
SelectedStatus(node) ==
    CASE node = "reproduce_unit_test_bug_node" -> "IN_ANALYSIS"
      [] node = "fix_unit_test_bug_node"       -> "PREPARED_FOR_FIX"
      [] node = "refactor_fix_node"            -> "READY_FOR_REVIEW"
      [] node = "review_fix_node"              -> "READY_FOR_REVIEW"

\* C35: whenever the reproduce, fix, refactor or review phase is about to
\* run, the store holds a bug its selection matches, so taking the first
\* match never fails.
C35_SelectionNeverEmpty ==
    pipe_next \in {"reproduce_unit_test_bug_node", "fix_unit_test_bug_node",
                   "refactor_fix_node", "review_fix_node"}
        => \E k \in Keys(pipe_state.bugs) :
              /\ Lookup(pipe_state.bugs, k).status = SelectedStatus(pipe_next)
              /\ Lookup(pipe_state.bugs, k).reproducibility_approach = "UNIT_TEST"

\* The bug statuses a fix of the given status may stand beside.
BugStatusesFor(fix_status) ==
    CASE fix_status = "IN_REVIEW" -> {"READY_FOR_REVIEW"}
      [] fix_status = "FINISHED"  -> {"SOLVED"}
      [] fix_status = "REJECTED"  -> {"PREPARED_FOR_FIX", "DISCARDED"}

\* C36: from an empty store, every fix is stored under the id of an existing
\* bug, which is its bug_id, and its status agrees with the status of that
\* bug: IN_REVIEW with READY_FOR_REVIEW, FINISHED with SOLVED, REJECTED with
\* PREPARED_FOR_FIX or DISCARDED.
C36_FixesAgreeWithBugs ==
    \A k \in Keys(pipe_state.fixes) :
        /\ HasKey(pipe_state.bugs, k)
        /\ Lookup(pipe_state.fixes, k).bug_id = k
        /\ Lookup(pipe_state.bugs, k).status
               \in BugStatusesFor(Lookup(pipe_state.fixes, k).status)

\* A fix was rejected by review and the next fix phase discarded the bug.
C36_Witness ==
    \E k \in Keys(pipe_state.fixes) :
        /\ Lookup(pipe_state.fixes, k).status = "REJECTED"
        /\ Lookup(pipe_state.bugs, k).status = "DISCARDED"

C36_WitnessFinished ==
    \E k \in Keys(pipe_state.fixes) :
        /\ Lookup(pipe_state.fixes, k).status = "FINISHED"
        /\ Lookup(pipe_state.bugs, k).status = "SOLVED"

\* What one answer of the gateway makes scout_node add to the store.
ScoutedBugs(result) == scout_node(pipe_state, result).bugs

FreshIds(result) ==
    LET new_bugs == ScoutedBugs(result) IN
    /\ Len(new_bugs) = Len(result.bugs)
    /\ DistinctKeys(new_bugs)
    /\ \A i \in DOMAIN new_bugs :
          /\ ~HasKey(pipe_state.bugs, new_bugs[i].key)
          /\ \A k \in Keys(pipe_state.bugs) : BugNum(new_bugs[i].key) > BugNum(k)
          /\ new_bugs[i].val.id = new_bugs[i].key
          /\ new_bugs[i].val.status = "POTENTIAL"
          /\ new_bugs[i].val.severity = result.bugs[i].severity

ScoutKeepsStore ==
    (pipe_next = "scout_node" /\ "bugs" \in DOMAIN pipe_update') =>
        /\ \A k \in Keys(pipe_state.bugs) :
              /\ HasKey(pipe_state'.bugs, k)
              /\ Lookup(pipe_state'.bugs, k) = Lookup(pipe_state.bugs, k)
        /\ Len(pipe_state'.bugs) = Len(pipe_state.bugs) + Len(pipe_update'.bugs)
        /\ \A i \in DOMAIN pipe_update'.bugs :
              Lookup(pipe_state'.bugs, pipe_update'.bugs[i].key).status = "POTENTIAL"

\* C37: the ids a scout phase gives to the bugs it creates are pairwise
\* distinct, absent from the store and numerically greater than every id in
\* it, so the update overwrites nothing and every bug it adds is POTENTIAL.
C37_ScoutIdsAreFresh ==
    /\ [](pipe_next = "scout_node" /\ pipe_state.entrypoints # <<>>
             => \A result \in ScoutFindings : FreshIds(result))
    /\ [][ScoutKeepsStore]_vars

\* Two findings were added to a store whose ids were not in order.
C37_Witness ==
    /\ pipe_last = "scout_node"
    /\ "bugs" \in DOMAIN pipe_update
    /\ Len(pipe_update.bugs) = 2
    /\ Len(pipe_state.bugs) = 4
    /\ pipe_state.bugs[1].key = BugId(2)
    /\ pipe_state.bugs[3].key = BugId(3)
    /\ pipe_state.bugs[4].key = BugId(4)

\* C38: a result is SUCCESS only if the last phase of the run was a review
\* that answered SUCCESS; a status set by a phase is returned as it is, and
\* the returned status is never unset.
C38_SuccessOnlyFromReview ==
    tdd_next = "returned" =>
        /\ tdd_result.status # None
        /\ tdd_result.status = "SUCCESS"
               => tdd_last = [node |-> "review", outcome |-> "SUCCESS"]
        /\ tdd_state.status # None => tdd_result.status = tdd_state.status

\* A run returned SUCCESS after an earlier review had rejected.
C38_Witness ==
    /\ tdd_next = "returned"
    /\ tdd_result.status = "SUCCESS"
    /\ tdd_reviews >= 2
    /\ tdd_last = [node |-> "review", outcome |-> "SUCCESS"]

\* A run returned the DISCARDED that write_tests had set, with review
\* attempts left.
C38_WitnessDiscarded ==
    /\ tdd_next = "returned"
    /\ tdd_result.status = "DISCARDED"
    /\ tdd_last.node = "write_tests"
    /\ tdd_state.review_attempts < tdd_config.max_review_attempts

\* A scout phase that ran on a non-empty queue and returned its update.
ScoutReturned ==
    /\ pipe_next = "scout_node"
    /\ pipe_state.entrypoints # <<>>
    /\ pipe_last' = "scout_node"
    /\ ~Raises(pipe_update')

ScoutConsumesHead ==
    /\ pipe_state.entrypoints = <<scout_entrypoint(pipe_state)>> \o pipe_state'.entrypoints
    /\ pipe_state'.fixes = pipe_state.fixes
    /\ ("bugs" \notin DOMAIN pipe_update' \/ pipe_update'.bugs = <<>>)
           => pipe_state'.bugs = pipe_state.bugs
    /\ "bugs" \notin DOMAIN pipe_update' => pipe_state'.messages = <<"No bugs found.">>

\* C39: a scout phase on a non-empty queue explores the head entry and
\* removes exactly that entry, the rest staying in order, whether the
\* gateway returned findings, an empty list, or no structured result (no bug
\* is added then, and the entry is consumed all the same).
C39_ScoutConsumesHead == [][ScoutReturned => ScoutConsumesHead]_vars

\* The gateway gave no result: the head of a two-entry queue is gone, the
\* second entry is left and the store has the bugs it had.
C39_Witness ==
    /\ pipe_last = "scout_node"
    /\ pipe_update = [messages |-> <<"No bugs found.">>, entrypoints |-> <<"a.go">>]
    /\ pipe_state.entrypoints = <<"a.go">>
    /\ pipe_state.bugs # <<>>

C39_WitnessEmptyList ==
    /\ pipe_last = "scout_node"
    /\ "bugs" \in DOMAIN pipe_update
    /\ pipe_update.bugs = <<>>
    /\ pipe_state.entrypoints = <<"b.go">>

C39_WitnessFindings ==
    /\ pipe_last = "scout_node"
    /\ "bugs" \in DOMAIN pipe_update
    /\ Len(pipe_update.bugs) = 2
    /\ pipe_state.entrypoints = <<"b.go">>

\* The messages review_fix_node returns.
ReviewMessages ==
    {"Review completed."} \cup
    {BugId(n) \o " review: " \o s : n \in 1..MaxBugNum, s \in {"SOLVED", "PREPARED_FOR_FIX"}}

\* The last phase that wrote to the state was a review.
ReviewRanLast(values) ==
    /\ "messages" \in DOMAIN values
    /\ values.messages # <<>>
    /\ values.messages[Len(values.messages)] \in ReviewMessages

\* A phase other than review has run and the loop goes on.
OtherPhaseRan ==
    /\ pc = "loop" /\ pc' = "loop"
    /\ graph.next \in Nodes \ {"review_fix_node"}

\* suggest-entrypoints, classify or reproduce ran and the gateway gave no result.
SelectedPhaseFailed ==
    /\ pc = "loop" /\ pc' = "loop"
    /\ graph.next \in {"suggest_entrypoint_node", "classify_bug_candidate_node",
                       "reproduce_unit_test_bug_node"}
    /\ graph'.values.messages = <<FailureMessage(graph.next)>>

PointerCleared == Pointer.exists /\ ~Pointer'.exists

\* C40: the pipeline ends on its own only directly after a review phase:
\* after every other phase another phase follows, the pointer is cleared
\* only in a run whose last phase was a review, and suggest-entrypoints,
\* classify and reproduce are selected again when the gateway gave them no
\* result.
C40_EndsOnlyAfterReview ==
    /\ [](graph.next = "END" => ReviewRanLast(graph.values))
    /\ [][OtherPhaseRan => graph'.next \in Nodes]_vars
    /\ [][PointerCleared => main.run_completed /\ ReviewRanLast(main.final_state)]_vars
    /\ [][SelectedPhaseFailed =>
             /\ graph'.next = graph.next
             /\ StoreOf(graph'.values) = StoreOf(graph.values)]_vars

\* The loop has ended on its own in an invocation that ran phases, the last
\* of them a review, and the pointer is about to be cleared.
C40_Witness ==
    /\ pc = "clear"
    /\ main.run_completed
    /\ hist.ran_phase
    /\ Pointer.exists
    /\ ReviewRanLast(main.final_state)

\* classify got no result and is selected again.
C40_WitnessReselected ==
    /\ pc = "loop"
    /\ graph.next = "classify_bug_candidate_node"
    /\ graph.values.messages = <<"Failed to classify bug.">>

\* An invocation resumed a run that was killed after its review phase.
C40_WitnessResumed ==
    /\ pc = "clear"
    /\ main.run_completed
    /\ ~hist.ran_phase
    /\ ReviewRanLast(main.final_state)

====
